---- MODULE Spec2Model ----
(***************************************************************************)
(* A model of the execution pipeline of mistral.rs: the per-step cache     *)
(* instruction protocol (Pipeline::step), the input batch builder          *)
(* (text_models_inputs_processor), the dense KV cache cell and the paged   *)
(* block allocator.                                                        *)
(*                                                                         *)
(* Indices: the code indexes sequences and rows from 0; sequences of this  *)
(* module are indexed from 1, so seq_indices holds k+1 where the code      *)
(* holds k.  Token positions (seqlen offsets, position ids) are kept       *)
(* 0-based as in the code.                                                 *)
(***************************************************************************)
EXTENDS Integers, Sequences, FiniteSets, TLC

\* ------------------------------------------------------------------ bounds
MaxSeqs == 2        \* sequences in the batch
MaxLen == 3         \* prompt tokens of one sequence
MaxBatchsize == 2   \* largest prompt_batchsize tried
MaxSteps == 2       \* steps of one run

\* ----------------------------------------------------------------- helpers
None == [some |-> FALSE, v |-> <<>>]
Some(x) == [some |-> TRUE, v |-> x]

MaxOf(S) == CHOOSE m \in S : \A x \in S : x <= m
MinOf(a, b) == IF a <= b THEN a ELSE b

RECURSIVE SumTo(_, _)
SumTo(s, k) == IF k = 0 THEN 0 ELSE SumTo(s, k - 1) + s[k]

\* Variant: the lengths are passed on without being accumulated
CumSumPlain(s) == s

\* Tensor.cumsum(0): out[i] = s[1] + ... + s[i]
CumSum(s) == [k \in 1..Len(s) |-> SumTo(s, k)]

\* x_i.extend(repeat(pad).take(n - len))
PadTo(row, n, pad) == row \o [x \in 1..(n - Len(row)) |-> pad]

\* The token sequence k holds at 0-based position p: all tokens of a batch
\* are distinct and none is the padding token 0.
Tok(k, p) == 10 * k + p + 1

\* ------------------------------------------------------------------- state
VARIABLES
    \* configuration, fixed at load time (GeneralMetadata)
    backend,            \* "dense" | "paged": the CacheBackendMetadata variant
    prompt_batchsize,   \* Option<NonZeroUsize>
    model,              \* the implementation behind forward_inputs
    \* the sequences of the batch and the model's active dense cache
    seqs,               \* seqs[k] = [toks, cache]: tokens and owned cache
    modelCache,         \* Option<rows>: one row of (token, position) per sequence
    phase,              \* "prompt" until the prompt step has sampled, then "completion"
    \* Pipeline::step
    pc,
    is_prompt,
    pre_op,
    post_op,
    items,              \* what inputs_iter yields, in order
    idx,                \* the enumerate() index i of the loop
    raw_logits,
    logits,             \* vec![None; input_seqs.len()]
    result,             \* "none" | "ok" | "err" | "panic"
    \* history of the running step
    preCount, postCount, fwdCount, sampleCount, stepCount,
    seqs0,              \* seqs when the step began
    cache0,             \* modelCache when the step began
    cachePre,           \* modelCache right after the pre-instruction
    cacheFwd,           \* modelCache right after the latest forward
    rowLog,             \* rowLog[k]: rows the model returned for sequence k
    \* the dense cache cell of one attention layer (Attention::forward)
    kv_cache,           \* Option<(Tensor, Tensor)>: rows of entries
    sliding_window,     \* Option<usize>
    appended,           \* every entry appended since the cell was last empty
    \* the block engine of the PagedAttention backend
    block_engine,       \* tables, reference counts, free lists, block contents
    last_op,            \* how the last allocator call ended
    \* the global interrupt flag
    terminate_all_next_step,  \* TERMINATE_ALL_NEXT_STEP
    fwdAtInterrupt,     \* fwdCount when the flag was set, -1 while it is not
    \* loading
    requested,          \* the options the user asked for
    loaded,             \* what the loader and the input processor made of them
    \* layers.rs
    use_matmul_via_f16, \* USE_MATMUL_VIA_F16
    \* PagedAttention input metadata
    slot_args,          \* what the chunk builders read of one sequence
    slot_mappings,      \* the slot mapping they built for it
    \* X-LoRA
    xlora_inputs,       \* the arguments of process_inputs and what it returned
    non_granular        \* NonGranularState, the scalings cache and the KV cache

cfgVars == <<backend, prompt_batchsize, model>>
stepVars == <<pc, is_prompt, pre_op, post_op, items, idx, raw_logits, logits, result>>
histVars == <<preCount, postCount, fwdCount, sampleCount, stepCount, seqs0, cache0,
              cachePre, cacheFwd, rowLog>>
cellVars == <<kv_cache, sliding_window, appended>>
intVars == <<terminate_all_next_step, fwdAtInterrupt>>
loadVars == <<requested, loaded>>
f16Vars == <<use_matmul_via_f16>>
slotVars == <<slot_args, slot_mappings>>
xloraVars == <<xlora_inputs, non_granular>>
pipeVars == <<cfgVars, seqs, modelCache, phase, stepVars, histVars, intVars, loadVars,
              f16Vars, slotVars, xloraVars>>
allocVars == <<block_engine, last_op>>
vars == <<pipeVars, cellVars, allocVars>>

\* GeneralMetadata.has_no_kv_cache
has_no_kv_cache == model = "no_kv_cache"

\* ----------------------------------------------------- input batch builder
\* An item of the iterator process_inputs returns: Result<InputProcessorOutput>
Err(msg) == [ok |-> FALSE, err |-> msg]
Ok(inputs, seq_indices) == [ok |-> TRUE, inputs |-> inputs, seq_indices |-> seq_indices]

\* Mutant: the chunk offset is not added to the sequence-length offsets
MakePromptChunkNoOffset(chunk_offset_toks, toks) ==
    LET n == Len(toks)
        max_len == MaxOf({Len(toks[j]) : j \in 1..n})
        padded == [j \in 1..n |-> PadTo(toks[j], max_len, 0)]
    IN  [ input |-> padded,
          positions |-> [j \in 1..n |-> 0],
          positions_kernel |-> [j \in 1..n |-> [t \in 1..max_len |-> t - 1]],
          context_lens |-> [j \in 1..n |-> <<Len(padded[j]) - 1, 1>>],
          position_ids |-> [j \in 1..n |-> Len(toks[j]) + chunk_offset_toks],
          cumulative_seqlens_q |-> CumSum(<<0>> \o [j \in 1..n |-> Len(padded[j])]),
          cumulative_seqlens_k |->
              CumSum(<<0>> \o [j \in 1..n |-> Len(padded[j]) + chunk_offset_toks]),
          max_q |-> MaxOf({0} \cup {Len(padded[j]) : j \in 1..n}),
          max_k |-> MaxOf({0} \cup {Len(padded[j]) + chunk_offset_toks : j \in 1..n}) ]

\* make_prompt_chunk with last_n_context_len = None, as step passes it
MakePromptChunk(chunk_offset_toks, toks) ==
    LET n == Len(toks)
        max_len == MaxOf({Len(toks[j]) : j \in 1..n})
        padded == [j \in 1..n |-> PadTo(toks[j], max_len, 0)]
    IN  [ input |-> padded,
          positions |-> [j \in 1..n |-> 0 + chunk_offset_toks],
          positions_kernel |-> [j \in 1..n |-> [t \in 1..max_len |-> t - 1]],
          context_lens |-> [j \in 1..n |-> <<Len(padded[j]) - 1, 1>>],
          position_ids |-> [j \in 1..n |-> Len(toks[j]) + chunk_offset_toks],
          cumulative_seqlens_q |-> CumSum(<<0>> \o [j \in 1..n |-> Len(padded[j])]),
          cumulative_seqlens_k |->
              CumSum(<<0>> \o [j \in 1..n |-> Len(padded[j]) + chunk_offset_toks]),
          max_q |-> MaxOf({0} \cup {Len(padded[j]) : j \in 1..n}),
          max_k |-> MaxOf({0} \cup {Len(padded[j]) + chunk_offset_toks : j \in 1..n}) ]

\* Mutant: the context is not cut down to its last token
MakeCompletionChunkWholeContext(toks) ==
    LET n == Len(toks)
        start_pos == [j \in 1..n |-> IF Len(toks[j]) = 0 THEN 0 ELSE Len(toks[j]) - 1]
        ctxt == toks
    IN  [ input |-> ctxt,
          positions |-> start_pos,
          positions_kernel |-> [j \in 1..n |-> <<start_pos[j]>>],
          context_lens |-> [j \in 1..n |-> <<0, 1>>],
          position_ids |-> [j \in 1..n |-> Len(toks[j])],
          cumulative_seqlens_q |-> CumSum(<<0>> \o [j \in 1..n |-> Len(ctxt[j])]),
          cumulative_seqlens_k |->
              CumSum(<<0>> \o [j \in 1..n |-> Len(ctxt[j]) + start_pos[j]]),
          max_q |-> MaxOf({0} \cup {Len(ctxt[j]) : j \in 1..n}),
          max_k |-> MaxOf({0} \cup {Len(ctxt[j]) + start_pos[j] : j \in 1..n}) ]

\* make_completion_chunk
MakeCompletionChunk(toks) ==
    LET n == Len(toks)
        start_pos == [j \in 1..n |-> IF Len(toks[j]) = 0 THEN 0 ELSE Len(toks[j]) - 1]
        ctxt == [j \in 1..n |-> SubSeq(toks[j], start_pos[j] + 1, Len(toks[j]))]
    IN  [ input |-> ctxt,
          positions |-> start_pos,
          positions_kernel |-> [j \in 1..n |-> <<start_pos[j]>>],
          context_lens |-> [j \in 1..n |-> <<0, 1>>],
          position_ids |-> [j \in 1..n |-> Len(toks[j])],
          cumulative_seqlens_q |-> CumSum(<<0>> \o [j \in 1..n |-> Len(ctxt[j])]),
          cumulative_seqlens_k |->
              CumSum(<<0>> \o [j \in 1..n |-> Len(ctxt[j]) + start_pos[j]]),
          max_q |-> MaxOf({0} \cup {Len(ctxt[j]) : j \in 1..n}),
          max_k |-> MaxOf({0} \cup {Len(ctxt[j]) + start_pos[j] : j \in 1..n}) ]

\* ctxt.chunks(prompt_batchsize).len()
NChunks(ctxt, B) == (Len(ctxt) + B - 1) \div B

\* ctxt.chunks(prompt_batchsize)[i], i counted from 0
TokChunk(ctxt, B, i) == SubSeq(ctxt, i * B + 1, MinOf((i + 1) * B, Len(ctxt)))

\* Mutant: every sequence is pushed to every chunk
RECURSIVE SeqNsAll(_, _, _, _)
SeqNsAll(toks, B, i, k) ==
    IF k = 0 THEN <<>>
    ELSE Append(SeqNsAll(toks, B, i, k - 1), k)

\* chunks_transposed[i]: the sequences that have an i-th chunk, in the order
\* the enumerate() loop pushes them
RECURSIVE SeqNs(_, _, _, _)
SeqNs(toks, B, i, k) ==
    IF k = 0 THEN <<>>
    ELSE LET rest == SeqNs(toks, B, i, k - 1)
         IN  IF NChunks(toks[k], B) > i THEN Append(rest, k) ELSE rest

\* Mutant: with PagedAttention metadata present the prompt batch size is
\* dropped and the prompt is built unchunked
GetPromptInputDropsBatchsize(toks, paged_attn_metadata, batchsize) ==
    IF batchsize.some /\ ~paged_attn_metadata.some
    THEN LET B == batchsize.v
             n_chunks == MaxOf({0} \cup {NChunks(toks[k], B) : k \in 1..Len(toks)})
         IN  [c \in 1..n_chunks |->
                LET seq_ns == SeqNs(toks, B, c - 1, Len(toks))
                IN  Ok(MakePromptChunk((c - 1) * B,
                                       [j \in 1..Len(seq_ns) |->
                                            TokChunk(toks[seq_ns[j]], B, c - 1)]),
                       seq_ns)]
    ELSE <<Ok(MakePromptChunk(0, toks), [k \in 1..Len(toks) |-> k])>>

\* get_prompt_input; prompt_batchsize and paged_attn_metadata are Options
GetPromptInput(toks, paged_attn_metadata, batchsize) ==
    IF batchsize.some /\ ~paged_attn_metadata.some
    THEN LET B == batchsize.v
             n_chunks == MaxOf({0} \cup {NChunks(toks[k], B) : k \in 1..Len(toks)})
         IN  [c \in 1..n_chunks |->
                LET seq_ns == SeqNs(toks, B, c - 1, Len(toks))
                IN  Ok(MakePromptChunk((c - 1) * B,
                                       [j \in 1..Len(seq_ns) |->
                                            TokChunk(toks[seq_ns[j]], B, c - 1)]),
                       seq_ns)]
    ELSE IF batchsize.some
         THEN <<Err("PagedAttention does not yet support prompt batching.")>>
         ELSE <<Ok(MakePromptChunk(0, toks), [k \in 1..Len(toks) |-> k])>>

\* get_completion_input
GetCompletionInput(toks, no_kv_cache, paged_attn_metadata, batchsize) ==
    IF no_kv_cache
    THEN GetPromptInput(toks, paged_attn_metadata, batchsize)
    ELSE <<Ok(MakeCompletionChunk(toks), [k \in 1..Len(toks) |-> k])>>

\* TextInputsProcessor::process_inputs, for a model that is not X-LoRA
ProcessInputs(input_seqs, prompt, no_kv_cache, paged_attn_metadata, batchsize) ==
    LET toks == [k \in 1..Len(input_seqs) |-> input_seqs[k].toks]
    IN  IF prompt
        THEN GetPromptInput(toks, paged_attn_metadata, batchsize)
        ELSE GetCompletionInput(toks, no_kv_cache, paged_attn_metadata, batchsize)

\* ------------------------------------------------- matmul via f16
\* VIA_F16_TOK_THRESHOLD: 512 tokens in the source, scaled to the prompt
\* lengths of the model
VIA_F16_TOK_THRESHOLD == 1

\* INHIBIT_GEMM_F16, which no code of the pipeline stores to
INHIBIT_GEMM_F16 == FALSE

\* set_use_matmul_via_f16: the flag after the call
SetUseMatmulViaF16(cur, via_f16) ==
    IF ~INHIBIT_GEMM_F16 THEN via_f16 ELSE cur

\* make_prompt_chunk: input.dim(1)? > VIA_F16_TOK_THRESHOLD
PromptChunkViaF16(inputs) == Len(inputs.input[1]) > VIA_F16_TOK_THRESHOLD

\* USE_MATMUL_VIA_F16 once the chunks 1..c of the iterator are built, one
\* after the other: make_prompt_chunk stores the comparison, and
\* make_completion_chunk stores false; a chunk whose construction fails
\* stores nothing
RECURSIVE FlagAfterBuild(_, _, _, _, _)
FlagAfterBuild(cur, built, by_prompt, failAt, c) ==
    IF c = 0 THEN cur
    ELSE LET before == FlagAfterBuild(cur, built, by_prompt, failAt, c - 1)
         IN  IF built[c].ok /\ c # failAt
             THEN SetUseMatmulViaF16(before,
                                     by_prompt /\ PromptChunkViaF16(built[c].inputs))
             ELSE before

\* The flag before any input is built
F16Off == use_matmul_via_f16 = FALSE

\* ------------------------------------------ PagedAttention slot mappings
MaxBlockSize == 2   \* largest block_size
MaxBlockId == 2     \* largest block id of a table
MaxTableLen == 2    \* most blocks of one table
MaxSlotWindow == 2  \* largest sliding window of the slot mappings

\* _PAD_SLOT_ID
PAD_SLOT_ID == -1

\* A panic, and a slot mapping that was built
Panic == [panic |-> TRUE, v |-> <<>>]
Built(v) == [panic |-> FALSE, v |-> v]

\* Mutant: the block number is not scaled by the block size
RECURSIVE PromptSlotMappingUnscaled(_, _, _, _, _)
PromptSlotMappingUnscaled(chunk_offset_toks, prompt_len, table, block_size, window) ==
    IF ~table.some THEN Built([i \in 1..prompt_len |-> PAD_SLOT_ID])
    ELSE IF prompt_len = 0 THEN Built(<<>>)
    ELSE LET i == chunk_offset_toks + prompt_len - 1
             before == PromptSlotMappingUnscaled(chunk_offset_toks, prompt_len - 1,
                                                 table, block_size, window)
         IN  IF before.panic \/ i \div block_size >= Len(table.v) THEN Panic
             ELSE Built(Append(before.v,
                               table.v[i \div block_size + 1] + (i % block_size)))

\* make_prompt_chunk, the slot mapping of one sequence: the loop over
\* i in chunk_offset_toks..prompt_len + chunk_offset_toks, built up to its
\* last position.  table is None during profiling.
RECURSIVE PromptSlotMappingTo(_, _, _, _, _, _)
PromptSlotMappingTo(chunk_offset_toks, prompt_len, table, block_size, window, n) ==
    IF n = 0 THEN Built(<<>>)
    ELSE LET start_idx ==
                 IF window.some
                 THEN IF prompt_len > window.v
                      THEN MinOf(chunk_offset_toks, prompt_len - window.v)
                      ELSE chunk_offset_toks
                 ELSE chunk_offset_toks
             i == chunk_offset_toks + n - 1
             before == PromptSlotMappingTo(chunk_offset_toks, prompt_len, table,
                                           block_size, window, n - 1)
             pad == IF i < start_idx THEN <<PAD_SLOT_ID>> ELSE <<>>
         IN  IF before.panic \/ i \div block_size >= Len(table.v) THEN Panic
             ELSE LET block_number == table.v[i \div block_size + 1]
                      block_offset == i % block_size
                      slot == block_number * block_size + block_offset
                  IN  Built(before.v \o pad \o <<slot>>)

PromptSlotMapping(chunk_offset_toks, prompt_len, table, block_size, window) ==
    IF ~table.some THEN Built([i \in 1..prompt_len |-> PAD_SLOT_ID])
    ELSE PromptSlotMappingTo(chunk_offset_toks, prompt_len, table, block_size,
                             window, prompt_len)

\* Variant: a position past the table is mapped into the table's last block
CompletionSlotMappingClamped(len, table, block_size) ==
    LET start_pos == IF len = 0 THEN 0 ELSE len - 1
    IN  IF ~table.some \/ table.v = <<>> THEN Panic
        ELSE LET block_number ==
                     table.v[MinOf(start_pos \div block_size + 1, Len(table.v))]
                 block_offset == start_pos % block_size
                 slot == block_number * block_size + block_offset
             IN  Built(<<slot>>)

\* make_completion_chunk, the slot mapping of one sequence of len tokens
CompletionSlotMapping(len, table, block_size) ==
    LET start_pos == IF len = 0 THEN 0 ELSE len - 1
    IN  IF ~table.some \/ start_pos \div block_size >= Len(table.v) THEN Panic
        ELSE LET block_number == table.v[start_pos \div block_size + 1]
                 block_offset == start_pos % block_size
                 slot == block_number * block_size + block_offset
             IN  Built(<<slot>>)

\* Flattens a list of rows, as pushing every row's elements in turn does
RECURSIVE Flatten(_)
Flatten(rows) == IF rows = <<>> THEN <<>> ELSE Head(rows) \o Flatten(Tail(rows))

\* Variant: rows are extended with 0 whatever the pad value is
MakeTensorWithPadZero(x, max_len, pad) == [j \in 1..Len(x) |-> PadTo(x[j], max_len, 0)]

\* _make_tensor_with_pad, kept as rows: every row is extended with pad to
\* max_len
MakeTensorWithPad(x, max_len, pad) == [j \in 1..Len(x) |-> PadTo(x[j], max_len, pad)]

\* make_prompt_chunk with PagedAttention metadata, chunk_offset_toks = 0: the
\* PagedAttentionInputMetadata of a batch of [len, table], or a panic.  A
\* sequence without a table (profiling) gets pad slots and pushes no block
\* table and no context lengths; the other sequences push their table once
\* per prompt token.  max() of an empty list is unwrapped.
PromptPagedMeta(batch, block_size, window) ==
    LET n == Len(batch)
        rows == [j \in 1..n |->
                    PromptSlotMapping(0, batch[j].len, batch[j].table, block_size, window)]
        has_table(j) == batch[j].table.some
        tabled == SelectSeq([j \in 1..n |-> j], has_table)
        block_tables == Flatten([r \in 1..Len(tabled) |->
                                    [i \in 1..batch[tabled[r]].len |->
                                        batch[tabled[r]].table.v]])
        ctxt_lens == [r \in 1..Len(tabled) |->
                         [i \in 1..batch[tabled[r]].len |-> i - 1]]
    IN  IF \E j \in 1..n : rows[j].panic THEN Panic
        ELSE IF block_tables = <<>> \/ ctxt_lens = <<>> THEN Panic
        ELSE LET max_slot_mapping_len == MaxOf({Len(rows[j].v) : j \in 1..n})
                 max_block_table_len ==
                     MaxOf({Len(block_tables[r]) : r \in 1..Len(block_tables)})
                 max_context_len == MaxOf({Len(ctxt_lens[r]) : r \in 1..Len(ctxt_lens)})
             IN  Built([slot_mappings |->
                            MakeTensorWithPad([j \in 1..n |-> rows[j].v],
                                              max_slot_mapping_len, PAD_SLOT_ID),
                        block_tables |->
                            MakeTensorWithPad(block_tables, max_block_table_len, 0),
                        context_lens |->
                            MakeTensorWithPad(ctxt_lens, max_context_len, 0),
                        max_context_len |-> max_context_len])

\* Variant: under a sliding window the leading blocks are kept
CompletionBlockTableHead(table, block_size, window) ==
    IF window.some
    THEN SubSeq(table, 1, MinOf(Len(table), window.v \div block_size))
    ELSE table

\* make_completion_chunk, the block table handed to the kernel for one
\* sequence: table.get(slide_idx..) under a sliding window
CompletionBlockTable(table, block_size, window) ==
    IF window.some
    THEN LET sliding_window_blocks == window.v \div block_size
             slide_idx == IF Len(table) > sliding_window_blocks
                          THEN Len(table) - sliding_window_blocks
                          ELSE 0
         IN  SubSeq(table, slide_idx + 1, Len(table))
    ELSE table

\* make_completion_chunk: paged_attn_context_len of a sequence of len tokens
CompletionContextLen(len, window) ==
    IF window.some THEN MinOf(len, window.v) ELSE len

\* make_completion_chunk with PagedAttention metadata: the
\* PagedAttentionInputMetadata of a batch of [len, table], or a panic
CompletionPagedMeta(batch, block_size, window) ==
    LET n == Len(batch)
        slots == [j \in 1..n |->
                    CompletionSlotMapping(batch[j].len, batch[j].table, block_size)]
    IN  IF \E j \in 1..n : slots[j].panic THEN Panic
        ELSE LET block_tables == [j \in 1..n |->
                     CompletionBlockTable(batch[j].table.v, block_size, window)]
                 context_lens == [j \in 1..n |-> CompletionContextLen(batch[j].len, window)]
                 max_block_table_len == MaxOf({Len(block_tables[j]) : j \in 1..n})
             IN  Built([slot_mappings |->
                            MakeTensorWithPad([j \in 1..n |-> slots[j].v], 1, PAD_SLOT_ID),
                        block_tables |->
                            MakeTensorWithPad(block_tables, max_block_table_len, 0),
                        context_lens |-> context_lens,
                        max_context_len |-> MaxOf({context_lens[j] : j \in 1..n})])

\* What the builders read: the PagedAttention metadata and, of every sequence
\* of the batch, its length and its block table (None during profiling)
BlockTables ==
    {None} \cup {Some(t) : t \in UNION {[1..n -> 0..MaxBlockId] : n \in 0..MaxTableLen}}
SlotSeqs == [len : 1..MaxLen, table : BlockTables]
SlotArgs ==
    [block_size : 1..MaxBlockSize,
     sliding_window : {None} \cup {Some(w) : w \in 1..MaxSlotWindow},
     batch : [1..1 -> SlotSeqs]]

\* Batches of several sequences: sequence j has no table, or the first k
\* blocks of the blocks it owns, which it shares with no other sequence
MaxSlotSeqs == 2    \* sequences of a batch of the slot mappings
OwnTable(j, k) == [i \in 1..k |-> (j - 1) * MaxTableLen + i - 1]
OwnTables(j) == {None} \cup {Some(OwnTable(j, k)) : k \in 0..MaxTableLen}
SlotBatches(n) ==
    {b \in [1..n -> [len : 1..MaxLen,
                     table : UNION {OwnTables(j) : j \in 1..n}]] :
        \A j \in 1..n : b[j].table \in OwnTables(j)}
SlotBatchArgs ==
    [block_size : 1..MaxBlockSize,
     sliding_window : {None} \cup {Some(w) : w \in 1..MaxSlotWindow},
     batch : UNION {SlotBatches(n) : n \in 1..MaxSlotSeqs}]

\* No slot mapping is asked for
SlotIdle ==
    /\ slot_args = None
    /\ slot_mappings = [kind |-> "none", out |-> Built(<<>>)]

\* get_prompt_input with PagedAttention metadata: one unchunked
\* make_prompt_chunk call, chunk_offset_toks = 0
DoPromptSlots ==
    /\ slot_mappings.kind = "none"
    /\ slot_mappings' =
          [kind |-> "prompt",
           out |-> PromptPagedMeta(slot_args.batch, slot_args.block_size,
                                   slot_args.sliding_window)]
    /\ UNCHANGED slot_args

\* get_completion_input with PagedAttention metadata
DoCompletionSlots ==
    /\ slot_mappings.kind = "none"
    /\ slot_mappings' =
          [kind |-> "completion",
           out |-> CompletionPagedMeta(slot_args.batch, slot_args.block_size,
                                       slot_args.sliding_window)]
    /\ UNCHANGED slot_args

\* ------------------------------------------------------- dense KV cache
\* Tensor::cat along the sequence-length axis of two [batch, seq] tensors: the
\* batch sizes must agree
CatSeqDim(a, b) == [j \in 1..Len(a) |-> a[j] \o b[j]]

\* Cache::update_kv_cache_sliding_window on one cell: Option<[batch, seq]>.
\* The result is [ok, cell]: ok is FALSE when the concatenation is a shape error.
UpdateKvCacheSlidingWindow(cell, new, window) ==
    IF ~cell.some THEN [ok |-> TRUE, cell |-> Some(new)]
    ELSE IF Len(cell.v) # Len(new) THEN [ok |-> FALSE, cell |-> cell]
    ELSE LET cat == CatSeqDim(cell.v, new)
             w == window.v
         IN  [ok |-> TRUE,
              cell |-> Some([j \in 1..Len(cat) |->
                    IF window.some /\ Len(cat[j]) > w
                    THEN SubSeq(cat[j], Len(cat[j]) - w + 1, Len(cat[j]))
                    ELSE cat[j]])]

\* Cache::update_kv_cache: no sliding window
UpdateKvCache(cell, new) == UpdateKvCacheSlidingWindow(cell, new, None)

\* DefaultCacheManager::clone_in_cache: the sequences' caches, stacked along
\* the batch axis, become the model cache; the sequences keep theirs
CloneInCache(input_seqs) == Some([k \in 1..Len(input_seqs) |-> input_seqs[k].cache.v])

\* DefaultCacheManager::clone_out_cache: row k of the model cache becomes
\* sequence k's cache
CloneOutCache(cache, input_seqs) ==
    [k \in 1..Len(input_seqs) |-> [input_seqs[k] EXCEPT !.cache = Some(cache.v[k])]]

\* DefaultCacheManager::set_none_cache
SetNoneCache == None

\* ------------------------------------------------------------ the model
\* PhiRotaryEmbedding::forward: token t (from 0) of row j is embedded at
\* position seqlen_offsets[j] + t; a key/value entry is (token, position)
Rope(inputs) ==
    [j \in 1..Len(inputs.input) |->
        [t \in 1..Len(inputs.input[j]) |->
            <<inputs.input[j][t], inputs.positions[j] + t - 1>>]]

\* extract_logits: row j narrowed to (start, len) of context_lens[j].  The
\* output at chunk position t is, for a causal model, decided by the cached
\* entries and the chunk's entries up to t: it is modelled as that context.
ExtractLogits(ctx, past_len, context_lens) ==
    [j \in 1..Len(ctx) |->
        [t \in 1..context_lens[j][2] |->
            SubSeq(ctx[j], 1, past_len[j] + context_lens[j][1] + t)]]

\* Model::forward on the dense cache: [ok, cache, logits].  The kind "inert"
\* stands for a forward pass that leaves the cache as it finds it.
ForwardDense(kind, cache, inputs) ==
    LET kv == Rope(inputs)
        \* XLoraLlama::inner_forward with no_kv_cache: the cache is emptied first
        base == IF kind = "no_kv_cache" THEN None ELSE cache
        upd == UpdateKvCache(base, kv)
        past == [j \in 1..Len(kv) |-> IF base.some THEN Len(base.v[j]) ELSE 0]
    IN  IF kind = "inert"
        THEN [ok |-> TRUE, cache |-> cache,
              logits |-> ExtractLogits(kv, [j \in 1..Len(kv) |-> 0], inputs.context_lens)]
        ELSE IF ~upd.ok THEN [ok |-> FALSE, cache |-> cache, logits |-> <<>>]
        ELSE [ok |-> TRUE, cache |-> upd.cell,
              logits |-> ExtractLogits(upd.cell.v, past, inputs.context_lens)]

\* Model::forward with PagedAttention: the dense cache is not touched
ForwardPaged(cache, inputs) ==
    [ok |-> TRUE, cache |-> cache,
     logits |-> ExtractLogits(Rope(inputs), [j \in 1..Len(inputs.input) |-> 0],
                              inputs.context_lens)]

\* Pipeline::forward_inputs
ForwardInputs(cache, inputs) ==
    IF backend = "paged" THEN ForwardPaged(cache, inputs)
    ELSE ForwardDense(model, cache, inputs)

\* ------------------------------------------------------- Pipeline::step
PreOps == [kind : {"In", "Nothing", "Reset"}]
AdapterInstructions == {"None", "Activate"}
PostOps == [kind : {"Out", "Nothing", "Reset"}]
\* CacheBackendMetadata::PagedAttention carries no cache instruction
NoOp == [kind |-> "none"]

\* The cache instructions the engine may hand to a step: In only for
\* completion sequences that own a cache, In and Out only for a model that
\* keeps a KV cache
LegalPre(op) ==
    op.kind = "In" =>
        /\ phase = "completion"
        /\ ~has_no_kv_cache
        /\ \A k \in 1..Len(seqs) : seqs[k].cache.some
LegalPost(op) == op.kind = "Out" => ~has_no_kv_cache

\* PagedAttentionMeta handed to process_inputs: Some(metadata) or None
PagedMeta == IF backend = "paged" THEN Some("metadata") ELSE None

\* The return of step: Ok(()) or Err/panic
Finish(res) ==
    /\ pc' = "done"
    /\ result' = res

\* step up to the loop: the iterator is built (every chunk of it, eagerly)
\* and the result array is allocated.  A chunk's tensor construction may fail;
\* with PagedAttention the scheduler's block operations run first and may fail.
\* A batch whose step failed gets no further step: its requests are answered
\* with the error.
StartStep ==
    /\ pc \in {"idle", "done"}
    /\ result \in {"none", "ok"}
    /\ stepCount < MaxSteps
    /\ stepCount' = stepCount + 1
    /\ is_prompt' = (phase = "prompt")
    /\ IF backend = "dense"
       THEN \E pre \in PreOps, post \in PostOps :
                /\ LegalPre(pre) /\ LegalPost(post)
                /\ pre_op' = pre /\ post_op' = post
       ELSE pre_op' = NoOp /\ post_op' = NoOp
    /\ LET built == ProcessInputs(seqs, phase = "prompt", has_no_kv_cache,
                                  PagedMeta, prompt_batchsize)
       IN  \E failAt \in 0..Len(built) :
              /\ failAt > 0 => built[failAt].ok
              /\ items' = [c \in 1..Len(built) |->
                              IF c = failAt THEN Err("tensor") ELSE built[c]]
              /\ use_matmul_via_f16' =
                    FlagAfterBuild(use_matmul_via_f16, built,
                                   phase = "prompt" \/ has_no_kv_cache, failAt,
                                   Len(built))
    /\ logits' = [k \in 1..Len(seqs) |-> None]
    /\ idx' = 0
    /\ raw_logits' = <<>>
    /\ preCount' = 0 /\ postCount' = 0 /\ fwdCount' = 0 /\ sampleCount' = 0
    /\ seqs0' = seqs /\ cache0' = modelCache /\ cachePre' = None /\ cacheFwd' = None
    /\ rowLog' = [k \in 1..Len(seqs) |-> <<>>]
    /\ \E ops_ok \in {TRUE} \cup {backend = "dense"} :
          IF ops_ok
          THEN pc' = "loop" /\ result' = "none"
          ELSE Finish("err")
    /\ UNCHANGED <<cfgVars, seqs, modelCache, phase>>

\* inputs_iter is exhausted: the loop ends
LoopEnd ==
    /\ pc = "loop" /\ idx = Len(items)
    /\ pc' = "collect"
    /\ UNCHANGED <<cfgVars, seqs, modelCache, phase, is_prompt, pre_op, post_op, items,
                   idx, raw_logits, logits, result, histVars>>

\* inputs.map_err(..)? on an Err item: step returns the error
ItemErr ==
    /\ pc = "loop" /\ idx < Len(items) /\ ~items[idx + 1].ok
    /\ Finish("err")
    /\ UNCHANGED <<cfgVars, seqs, modelCache, phase, is_prompt, pre_op, post_op, items,
                   idx, raw_logits, logits, histVars>>

\* Mutant: the pre-instruction is executed for every chunk, not only if i == 0
ItemOkPreEveryChunk ==
    /\ pc = "loop" /\ idx < Len(items) /\ items[idx + 1].ok
    /\ pc' = IF backend = "dense" THEN "pre" ELSE "forward"
    /\ UNCHANGED <<cfgVars, seqs, modelCache, phase, is_prompt, pre_op, post_op, items,
                   idx, raw_logits, logits, result, histVars>>

\* an Ok item: the pre-instruction if i == 0 (default backend), then the forward
ItemOk ==
    /\ pc = "loop" /\ idx < Len(items) /\ items[idx + 1].ok
    /\ pc' = IF idx = 0 /\ backend = "dense" THEN "pre" ELSE "forward"
    /\ UNCHANGED <<cfgVars, seqs, modelCache, phase, is_prompt, pre_op, post_op, items,
                   idx, raw_logits, logits, result, histVars>>

\* Mutant: In leaves the model cache as it finds it
PreCacheInKeepsCache(op, cache, input_seqs) ==
    CASE op.kind = "In" -> cache
      [] op.kind = "Nothing" -> cache
      [] op.kind = "Reset" -> SetNoneCache

\* the cache action of the pre-instruction
PreCache(op, cache, input_seqs) ==
    CASE op.kind = "In" -> CloneInCache(input_seqs)
      [] op.kind = "Nothing" -> cache
      [] op.kind = "Reset" -> SetNoneCache

\* match pre_op { .. }: activate the adapters the instruction names, which
\* may fail, then the cache action
PreOp ==
    /\ pc = "pre"
    /\ \E adapter_inst \in AdapterInstructions, activated \in BOOLEAN :
          IF adapter_inst = "Activate" /\ ~activated
          THEN /\ Finish("err")
               /\ UNCHANGED <<modelCache, preCount, cachePre>>
          ELSE /\ modelCache' = PreCache(pre_op, modelCache, seqs)
               /\ cachePre' = modelCache'
               /\ preCount' = preCount + 1
               /\ pc' = "forward"
               /\ UNCHANGED result
    /\ UNCHANGED <<cfgVars, seqs, phase, is_prompt, pre_op, post_op, items, idx,
                   raw_logits, logits, postCount, fwdCount, sampleCount, stepCount,
                   seqs0, cache0, cacheFwd, rowLog>>

\* let raw_logits = self.forward_inputs(inputs)?
Forward ==
    /\ pc = "forward"
    /\ LET item == items[idx + 1]
           out == ForwardInputs(modelCache, item.inputs)
       IN  \E device_ok \in BOOLEAN :
              IF ~device_ok \/ ~out.ok
              THEN /\ Finish("err")
                   /\ UNCHANGED <<modelCache, raw_logits, fwdCount, rowLog, cacheFwd>>
              ELSE /\ modelCache' = out.cache
                   /\ cacheFwd' = out.cache
                   /\ raw_logits' = out.logits
                   /\ fwdCount' = fwdCount + 1
                   /\ rowLog' = [k \in 1..Len(seqs) |->
                         IF \E j \in 1..Len(item.seq_indices) : item.seq_indices[j] = k
                         THEN Append(rowLog[k],
                                out.logits[CHOOSE j \in 1..Len(item.seq_indices) :
                                                item.seq_indices[j] = k])
                         ELSE rowLog[k]]
                   /\ pc' = "scatter"
                   /\ UNCHANGED result
    /\ UNCHANGED <<cfgVars, seqs, phase, is_prompt, pre_op, post_op, items, idx, logits,
                   preCount, postCount, sampleCount, stepCount, seqs0, cache0, cachePre>>

\* Mutant: the rows are placed in chunk order, not by the chunk's seq_indices
ScatterRowsByChunkOrder(acc, raw, seq_indices, n) ==
    [k \in 1..Len(acc) |-> IF k <= n THEN Some(raw[k]) ELSE acc[k]]

\* for (logit_idx, seq_idx) in seq_indices: logits[seq_idx] = Some(raw_logits.i(logit_idx))
RECURSIVE ScatterRows(_, _, _, _)
ScatterRows(acc, raw, seq_indices, n) ==
    IF n = 0 THEN acc
    ELSE [ScatterRows(acc, raw, seq_indices, n - 1) EXCEPT ![seq_indices[n]] = Some(raw[n])]

Scatter ==
    /\ pc = "scatter"
    /\ logits' = ScatterRows(logits, raw_logits, items[idx + 1].seq_indices,
                             Len(items[idx + 1].seq_indices))
    /\ idx' = idx + 1
    /\ pc' = "loop"
    /\ UNCHANGED <<cfgVars, seqs, modelCache, phase, is_prompt, pre_op, post_op, items,
                   raw_logits, result, histVars>>

\* Mutant: the logits go to sampling without the post-instruction
CollectSkipsPost ==
    /\ pc = "collect"
    /\ IF \E k \in 1..Len(logits) : ~logits[k].some
       THEN Finish("panic")
       ELSE pc' = "sample" /\ UNCHANGED result
    /\ UNCHANGED <<cfgVars, seqs, modelCache, phase, is_prompt, pre_op, post_op, items,
                   idx, raw_logits, logits, histVars>>

\* l.expect("Did not get any inputs.").to_device(&Device::Cpu), collected with ?
Collect ==
    /\ pc = "collect"
    /\ IF \E k \in 1..Len(logits) : ~logits[k].some
       THEN Finish("panic")
       ELSE \E device_ok \in BOOLEAN :
               IF device_ok
               THEN /\ pc' = IF backend = "dense" THEN "post" ELSE "sample"
                    /\ UNCHANGED result
               ELSE Finish("err")
    /\ UNCHANGED <<cfgVars, seqs, modelCache, phase, is_prompt, pre_op, post_op, items,
                   idx, raw_logits, logits, histVars>>

\* match post_op { .. }
PostOp ==
    /\ pc = "post"
    /\ postCount' = postCount + 1
    /\ CASE post_op.kind = "Out" ->
              IF modelCache.some /\ Len(modelCache.v) = Len(seqs)
              THEN /\ seqs' = CloneOutCache(modelCache, seqs)
                   /\ pc' = "sample"
                   /\ UNCHANGED <<modelCache, result>>
              ELSE /\ Finish("panic")
                   /\ UNCHANGED <<seqs, modelCache>>
         [] post_op.kind = "Nothing" ->
              /\ pc' = "sample"
              /\ UNCHANGED <<seqs, modelCache, result>>
         [] post_op.kind = "Reset" ->
              /\ modelCache' = SetNoneCache
              /\ pc' = "sample"
              /\ UNCHANGED <<seqs, result>>
    /\ UNCHANGED <<cfgVars, phase, is_prompt, pre_op, post_op, items, idx, raw_logits,
                   logits, preCount, fwdCount, sampleCount, stepCount, seqs0, cache0,
                   cachePre, cacheFwd, rowLog>>

\* self.sample(input_seqs, logits, ..).await?: one token is appended to every
\* sequence, or sampling fails
Sample ==
    /\ pc = "sample"
    /\ \E sampled \in BOOLEAN :
          IF sampled
          THEN /\ seqs' = [k \in 1..Len(seqs) |->
                    [seqs[k] EXCEPT !.toks = Append(@, Tok(k, Len(@)))]]
               /\ sampleCount' = sampleCount + 1
               /\ phase' = "completion"
               /\ Finish("ok")
          ELSE /\ Finish("err")
               /\ UNCHANGED <<seqs, sampleCount, phase>>
    /\ UNCHANGED <<cfgVars, modelCache, is_prompt, pre_op, post_op, items, idx,
                   raw_logits, logits, preCount, postCount, fwdCount, stepCount, seqs0,
                   cache0, cachePre, cacheFwd, rowLog>>

\* ------------------------------------------------------- specification
Models == {"kv", "no_kv_cache"}
Batchsizes == {None} \cup {Some(b) : b \in 1..MaxBatchsize}

\* A batch of new requests: every sequence holds its prompt and owns no cache
Batches ==
    UNION {[1..n -> 1..MaxLen] : n \in 1..MaxSeqs}

NewSeq(k, len) == [toks |-> [p \in 1..len |-> Tok(k, p - 1)], cache |-> None]

InitWith(kinds) ==
    /\ backend \in {"dense", "paged"}
    /\ prompt_batchsize \in Batchsizes
    /\ model \in kinds
    /\ backend = "paged" => model = "kv"
    /\ \E lens \in Batches :
          seqs = [k \in DOMAIN lens |-> NewSeq(k, lens[k])]
    /\ modelCache = None
    /\ phase = "prompt"
    /\ pc = "idle"
    /\ is_prompt = TRUE
    /\ pre_op = NoOp /\ post_op = NoOp
    /\ items = <<>> /\ idx = 0 /\ raw_logits = <<>> /\ logits = <<>>
    /\ result = "none"
    /\ preCount = 0 /\ postCount = 0 /\ fwdCount = 0 /\ sampleCount = 0
    /\ stepCount = 0
    /\ seqs0 = <<>> /\ cache0 = None /\ cachePre = None /\ cacheFwd = None
    /\ rowLog = <<>>

\* --------------------------------------------------- paged block allocator
NumGpuBlocks == 3   \* capacity of the device pool
NumCpuBlocks == 1   \* capacity of the host pool
BlockSize == 2      \* token slots of one block
MaxAllocSeqs == 2   \* sequences known to the allocator
MaxSlots == 3       \* largest n_new_slots of one allocate_for call
MaxToks == 4        \* tokens appended to one sequence

GpuBlocks == 1..NumGpuBlocks
CpuBlocks == (NumGpuBlocks + 1)..(NumGpuBlocks + NumCpuBlocks)
Blocks == GpuBlocks \cup CpuBlocks
AllocSeqs == 1..MaxAllocSeqs

\* ceil(n / block_size)
BlocksFor(n) == (n + BlockSize - 1) \div BlockSize

\* The set of ids in a block table
TableBlocks(table) == {table[i] : i \in 1..Len(table)}

\* A sequence is swapped out when its table names blocks of the host pool
OnGpu(be, s) == be.block_tables[s] # <<>> /\ be.block_tables[s][1] \in GpuBlocks
OnCpu(be, s) == be.block_tables[s] # <<>> /\ be.block_tables[s][1] \in CpuBlocks

\* The free list of a pool is kept as the set of its ids: the order in which
\* free blocks are handed out is not modelled, the lowest ids go first.
RECURSIVE Lowest(_, _)
Lowest(free, n) ==
    IF n = 0 THEN <<>>
    ELSE LET b == CHOOSE x \in free : \A y \in free : x <= y
         IN  <<b>> \o Lowest(free \ {b}, n - 1)

\* Take n ids from a free list: reference count 1, no token written
TakeBlocks(be, pool, n) ==
    LET free == IF pool = "gpu" THEN be.free_gpu ELSE be.free_cpu
        taken == Lowest(free, n)
        rest == free \ TableBlocks(taken)
    IN  [be EXCEPT !.free_gpu = IF pool = "gpu" THEN rest ELSE @,
                   !.free_cpu = IF pool = "cpu" THEN rest ELSE @,
                   !.ref_counts = [b \in Blocks |->
                                     IF b \in TableBlocks(taken) THEN 1 ELSE @[b]],
                   !.data = [b \in Blocks |->
                                     IF b \in TableBlocks(taken) THEN <<>> ELSE @[b]]]

\* Mutant: a block whose count reaches zero is not returned to the free list
ReleaseBlockLeaks(be, b) ==
    [be EXCEPT !.ref_counts[b] = @ - 1,
               !.data[b] = IF be.ref_counts[b] = 1 THEN <<>> ELSE @]

\* Drop one reference to block b; at zero the block returns to the free list
\* of its pool
ReleaseBlock(be, b) ==
    [be EXCEPT !.ref_counts[b] = @ - 1,
               !.data[b] = IF be.ref_counts[b] = 1 THEN <<>> ELSE @,
               !.free_gpu = IF be.ref_counts[b] = 1 /\ b \in GpuBlocks
                            THEN @ \cup {b} ELSE @,
               !.free_cpu = IF be.ref_counts[b] = 1 /\ b \in CpuBlocks
                            THEN @ \cup {b} ELSE @]

RECURSIVE ReleaseAll(_, _)
ReleaseAll(be, table) ==
    IF table = <<>> THEN be
    ELSE ReleaseAll(ReleaseBlock(be, Head(table)), Tail(table))

\* Mutant: the blocks the free list still has are taken before the call fails
AllocateForTakesThenFails(be, s, n) ==
    LET k == BlocksFor(n)
        have == Cardinality(be.free_gpu)
    IN  IF have < k
        THEN [ok |-> FALSE,
              be |-> [TakeBlocks(be, "gpu", have) EXCEPT
                          !.block_tables[s] = @ \o Lowest(be.free_gpu, have)]]
        ELSE [ok |-> TRUE,
              be |-> [TakeBlocks(be, "gpu", k) EXCEPT
                          !.block_tables[s] = @ \o Lowest(be.free_gpu, k)]]

\* allocate_for(sequence, n_new_slots): the table grows by
\* ceil(n_new_slots / block_size) blocks; OutOfMemory when the free list has
\* fewer
AllocateFor(be, s, n) ==
    LET k == BlocksFor(n)
        taken == Lowest(be.free_gpu, k)
    IN  IF Cardinality(be.free_gpu) < k THEN [ok |-> FALSE, be |-> be]
        ELSE [ok |-> TRUE,
              be |-> [TakeBlocks(be, "gpu", k) EXCEPT
                          !.block_tables[s] = @ \o taken]]

\* fork(sequence): the child shares every block of the parent; each shared
\* block's reference count grows by one
ForkSeq(be, parent, child) ==
    [be EXCEPT !.block_tables[child] = be.block_tables[parent],
               !.num_toks[child] = be.num_toks[parent],
               !.ref_counts = [b \in Blocks |->
                   IF b \in TableBlocks(be.block_tables[parent]) THEN @[b] + 1 ELSE @[b]]]

\* write_before_mutate on entry i of the table of s: a block with more than
\* one reference is copied into a fresh block, the entry is rewritten and the
\* old block loses one reference
WriteBeforeMutate(be, s, i) ==
    LET old == be.block_tables[s][i]
        fresh == Lowest(be.free_gpu, 1)[1]
    IN  IF be.ref_counts[old] <= 1 THEN [ok |-> TRUE, be |-> be]
        ELSE IF be.free_gpu = {} THEN [ok |-> FALSE, be |-> be]
        ELSE [ok |-> TRUE,
              be |-> [TakeBlocks(be, "gpu", 1) EXCEPT
                          !.data[fresh] = be.data[old],
                          !.block_tables[s][i] = fresh,
                          !.ref_counts[old] = @ - 1]]

\* The 1-based table entry of the block that holds the next token of s
WriteIndex(be, s) == be.num_toks[s] \div BlockSize + 1

\* What the slot of the token at 0-based position p holds once written; the
\* content is told apart by position only
Slot(p) == p + 1

\* Mutant: the token is written into the shared block in place
AppendTokenInPlace(be, s) ==
    LET i == WriteIndex(be, s)
        grown == IF i > Len(be.block_tables[s])
                 THEN AllocateFor(be, s, 1) ELSE [ok |-> TRUE, be |-> be]
    IN  IF ~grown.ok THEN grown
        ELSE [ok |-> TRUE,
              be |-> [grown.be EXCEPT
                        !.data[grown.be.block_tables[s][i]] =
                            Append(@, Slot(be.num_toks[s])),
                        !.num_toks[s] = @ + 1]]

\* append_token(sequence): a new block only when the last block has no free
\* slot; a shared block that would receive the token is copied first
AppendToken(be, s) ==
    LET i == WriteIndex(be, s)
        grown == IF i > Len(be.block_tables[s])
                 THEN AllocateFor(be, s, 1)
                 ELSE WriteBeforeMutate(be, s, i)
    IN  IF ~grown.ok THEN grown
        ELSE [ok |-> TRUE,
              be |-> [grown.be EXCEPT
                        !.data[grown.be.block_tables[s][i]] =
                            Append(@, Slot(be.num_toks[s])),
                        !.num_toks[s] = @ + 1]]

\* Move the blocks of s to the other pool: each gets a block of that pool
\* with its content, the table is rewritten, the old blocks are released
SwapTo(be, s, pool) ==
    LET table == be.block_tables[s]
        free == IF pool = "gpu" THEN be.free_gpu ELSE be.free_cpu
        n == Len(table)
        moved == Lowest(free, n)
        took == TakeBlocks(be, pool, n)
        copied == [took EXCEPT
                     !.data = [b \in Blocks |->
                                 IF \E i \in 1..n : moved[i] = b
                                 THEN be.data[table[CHOOSE i \in 1..n : moved[i] = b]]
                                 ELSE @[b]],
                     !.block_tables[s] = moved]
    IN  IF Cardinality(free) < n THEN [ok |-> FALSE, be |-> be]
        ELSE [ok |-> TRUE, be |-> ReleaseAll(copied, table)]

\* swap_out(sequence) / swap_in(sequence)
SwapOut(be, s) == SwapTo(be, s, "cpu")
SwapIn(be, s) == SwapTo(be, s, "gpu")

\* free(sequence): every block of the table loses one reference
FreeSeq(be, s) ==
    [ReleaseAll(be, be.block_tables[s]) EXCEPT
         !.block_tables[s] = <<>>, !.num_toks[s] = 0]

\* A new engine: every block free, no sequence known
NewBlockEngine ==
    [block_tables |-> [s \in AllocSeqs |-> <<>>],
     num_toks |-> [s \in AllocSeqs |-> 0],
     ref_counts |-> [b \in Blocks |-> 0],
     data |-> [b \in Blocks |-> <<>>],
     free_gpu |-> GpuBlocks,
     free_cpu |-> CpuBlocks]

NoCall == "none"

\* The allocator of the specifications that do not use it
AllocIdle ==
    /\ block_engine = NewBlockEngine
    /\ last_op = NoCall

\* One call: the engine after it and how the call ended
Call(r) ==
    /\ block_engine' = r.be
    /\ last_op' = IF r.ok THEN "ok" ELSE "OutOfMemory"

\* A sequence the device pool can serve: one it holds blocks for, or the next
\* new one (ids are handed out lowest first)
Known(s) == block_engine.block_tables[s] # <<>>
IsNew(s) == ~Known(s) /\ \A t \in AllocSeqs : t < s => Known(t)
Resident(s) == OnGpu(block_engine, s) \/ IsNew(s)

DoAllocateFor ==
    \E s \in AllocSeqs, n \in 1..MaxSlots :
        /\ Resident(s)
        /\ Call(AllocateFor(block_engine, s, n))

DoFork ==
    \E parent \in AllocSeqs, child \in AllocSeqs :
        /\ parent # child
        /\ OnGpu(block_engine, parent)
        /\ IsNew(child)
        /\ Call([ok |-> TRUE, be |-> ForkSeq(block_engine, parent, child)])

DoAppendToken ==
    \E s \in AllocSeqs :
        /\ Resident(s)
        /\ block_engine.num_toks[s] < MaxToks
        /\ Call(AppendToken(block_engine, s))

DoWriteBeforeMutate ==
    \E s \in AllocSeqs :
        /\ OnGpu(block_engine, s)
        /\ \E i \in 1..Len(block_engine.block_tables[s]) :
              Call(WriteBeforeMutate(block_engine, s, i))

DoSwapOut ==
    \E s \in AllocSeqs :
        /\ OnGpu(block_engine, s)
        /\ Call(SwapOut(block_engine, s))

DoSwapIn ==
    \E s \in AllocSeqs :
        /\ OnCpu(block_engine, s)
        /\ Call(SwapIn(block_engine, s))

DoFree ==
    \E s \in AllocSeqs :
        /\ block_engine.block_tables[s] # <<>>
        /\ Call([ok |-> TRUE, be |-> FreeSeq(block_engine, s)])


\* ------------------------------------------------ loading and options
\* The options a user may ask for together
ModelKinds == {"Quantized", "AdapterQuantized"}
InputProcessors == {"text", "idefics2"}
\* GGUFLoader, or AnyMoeLoader with a GGUFLoader as its target
Loaders == {"gguf", "anymoe"}
\* Loader::load_model_from_hf and Loader::load_model_from_path
LoadEntries == {"hf", "path"}
Requests ==
    [mapper_is_dummy : BOOLEAN,        \* DeviceMapMetadata::is_dummy
     kind : ModelKinds,                \* ModelKind of the loader
     in_situ_quant : BOOLEAN,          \* Option<IsqType>::is_some
     paged_attn_config : BOOLEAN,      \* Option<PagedAttentionConfig>::is_some
     processor : InputProcessors,      \* the pipeline's input processor
     prompt_batchsize : Batchsizes,
     loader : Loaders,                 \* the Loader the user calls
     entry : LoadEntries]              \* the function of it that is called

\* Nothing loaded yet
NotLoaded == [pc |-> "requested", paged_attn_config |-> FALSE, result |-> "none",
              n_items |-> 0, received |-> FALSE]

\* The pipeline and allocator specifications load nothing
LoadIdle ==
    /\ requested = None
    /\ loaded = NotLoaded

\* GGUFLoader::load_model_from_path, up to the choice of the cache backend:
\* [ok, paged_attn_config].  In-situ quantization of a GGUF model bails; a
\* device mapping and an adapter model each set paged_attn_config to None
\* after a warning.
LoadModelFromPath(req) ==
    IF req.in_situ_quant
    THEN [ok |-> FALSE, paged_attn_config |-> FALSE]
    ELSE LET mapped == IF ~req.mapper_is_dummy THEN FALSE ELSE req.paged_attn_config
             adapted == IF req.kind = "AdapterQuantized" THEN FALSE ELSE mapped
         IN  [ok |-> TRUE, paged_attn_config |-> adapted]

\* GGUFLoader::load_model_from_hf: fetches the paths and calls
\* load_model_from_path with the options it was given
LoadModelFromHf(req) == LoadModelFromPath(req)

\* AnyMoeLoader::load_model_from_hf and load_model_from_path, the
\* paged_attn_config handed to the target loader:
\* if paged_attn_config.is_none() { warn!(..); None } else { paged_attn_config }
AnyMoeTargetPagedAttnConfig(paged_attn_config) ==
    IF ~paged_attn_config THEN FALSE ELSE paged_attn_config

\* The paged_attn_config the GGUF loader is called with
ReceivedPagedAttnConfig(req) ==
    IF req.loader = "anymoe"
    THEN AnyMoeTargetPagedAttnConfig(req.paged_attn_config)
    ELSE req.paged_attn_config

\* Idefics2ImageProcessor::process_inputs of a prompt: prompt_batchsize is
\* warned about and None is handed to get_prompt_input, whose first item is
\* unwrapped
Idefics2ProcessInputs(toks, is_xlora, no_kv_cache, paged_attn_metadata, batchsize) ==
    IF is_xlora THEN <<Err("Cannot make inputs for X-LoRA vision model.")>>
    ELSE IF no_kv_cache THEN <<Err("Vision model must have kv cache.")>>
    ELSE <<GetPromptInput(toks, paged_attn_metadata, None)[1]>>

\* The prompt of the first request: one sequence of MaxLen tokens
FirstPrompt == <<[p \in 1..MaxLen |-> Tok(1, p - 1)]>>

\* The loader runs
DoLoad ==
    /\ loaded.pc = "requested"
    /\ LET received == ReceivedPagedAttnConfig(requested)
           req == [requested EXCEPT !.paged_attn_config = received]
           r == IF requested.entry = "hf" THEN LoadModelFromHf(req)
                ELSE LoadModelFromPath(req)
       IN  loaded' = [pc |-> IF r.ok THEN "loaded" ELSE "done",
                      paged_attn_config |-> r.paged_attn_config,
                      result |-> IF r.ok THEN "none" ELSE "err",
                      n_items |-> 0,
                      received |-> received]
    /\ UNCHANGED requested

\* The loaded pipeline builds the inputs of its first prompt step
DoProcessInputs ==
    /\ loaded.pc = "loaded"
    /\ LET meta == IF loaded.paged_attn_config THEN Some("metadata") ELSE None
           built == IF requested.processor = "idefics2"
                    THEN Idefics2ProcessInputs(FirstPrompt, FALSE, FALSE, meta,
                                               requested.prompt_batchsize)
                    ELSE GetPromptInput(FirstPrompt, meta, requested.prompt_batchsize)
       IN  loaded' = [loaded EXCEPT
                        !.pc = "done",
                        !.result = IF \E i \in 1..Len(built) : ~built[i].ok
                                   THEN "err" ELSE "ok",
                        !.n_items = Len(built)]
    /\ UNCHANGED requested

\* ------------------------------------------------------------- X-LoRA
\* TextInputsProcessor::process_inputs for an X-LoRA model.  A completion
\* step zips the items of get_prompt_input over every sequence's tokens with
\* those of get_completion_input: the prompt item gives the 'full' inputs
\* and seq_indices, the completion item the others.  A prompt step uses each
\* prompt item for both.
XLoraProcessInputs(toks, prompt, no_kv_cache, paged_attn_metadata, batchsize) ==
    LET full == GetPromptInput(toks, paged_attn_metadata, batchsize)
        part == IF prompt THEN full
                ELSE GetCompletionInput(toks, no_kv_cache, paged_attn_metadata,
                                        batchsize)
    IN  [c \in 1..MinOf(Len(full), Len(part)) |->
            IF ~full[c].ok THEN full[c]
            ELSE IF ~part[c].ok THEN part[c]
            ELSE Ok([input_ids |-> part[c].inputs.input,
                     input_ids_full |-> full[c].inputs.input,
                     seqlen_offsets |-> part[c].inputs.positions,
                     seqlen_offsets_full |-> full[c].inputs.positions,
                     seqlen_offsets_kernel |-> part[c].inputs.positions_kernel,
                     seqlen_offsets_kernel_full |-> full[c].inputs.positions_kernel,
                     context_lens |-> part[c].inputs.context_lens,
                     position_ids |-> full[c].inputs.position_ids],
                    full[c].seq_indices)]

\* The arguments of one process_inputs call of an X-LoRA pipeline
XLoraArgs ==
    [lens : Batches, is_prompt : BOOLEAN, no_kv_cache : BOOLEAN,
     paged_attn : BOOLEAN, prompt_batchsize : Batchsizes]

\* The tokens of the sequences of a call
XLoraToks(args) ==
    [k \in DOMAIN args.lens |-> [p \in 1..args.lens[k] |-> Tok(k, p - 1)]]

\* process_inputs is not called
NoXLoraInputs == xlora_inputs = None

\* process_inputs runs with is_xlora = true
DoXLoraProcessInputs ==
    /\ ~xlora_inputs.built.some
    /\ LET a == xlora_inputs.args
       IN  xlora_inputs' =
              [xlora_inputs EXCEPT
                 !.built = Some(XLoraProcessInputs(
                                XLoraToks(a), a.is_prompt, a.no_kv_cache,
                                IF a.paged_attn THEN Some("metadata") ELSE None,
                                a.prompt_batchsize))]
    /\ UNCHANGED non_granular

MaxTgtIndex == 2        \* largest tgt_non_granular_index configured
MaxScalingCalls == 4    \* get_scalings calls of a run

\* The pipeline as loaded with tgt_non_granular_index = tgt:
\* non_granular_index 0, no cached scalings, an empty KV cache
NewNonGranular(tgt) ==
    [non_granular_index |-> 0, tgt_non_granular_index |-> tgt,
     scalings_cache |-> None, kv_cache |-> FALSE,
     passes |-> 0, calls |-> 0, returned |-> None, op |-> "none"]

\* A pipeline loaded with tgt_non_granular_index = None has no
\* NonGranularState
NoNonGranular == non_granular = None

\* ScalingsMaker::get_scalings with non_granular_state = Some(..), for
\* input_ids of seq_len columns.  The scalings of a scaling pass are named by
\* the number of the pass.
GetScalings(st, seq_len) ==
    IF st.scalings_cache.some
    THEN [st EXCEPT !.calls = @ + 1, !.returned = st.scalings_cache]
    ELSE LET index == IF seq_len = 1 THEN st.non_granular_index + 1
                      ELSE st.non_granular_index
             scalings == st.passes + 1
         IN  [st EXCEPT
                !.non_granular_index = index,
                !.passes = scalings,
                !.kv_cache = TRUE,
                !.scalings_cache = IF index = st.tgt_non_granular_index
                                   THEN Some(scalings) ELSE None,
                !.calls = @ + 1,
                !.returned = Some(scalings)]

\* GGUFPipeline::reset_non_granular_state
ResetNonGranularState(st) ==
    [st EXCEPT !.scalings_cache = None, !.non_granular_index = 0]

\* GGUFPipeline::set_none_cache
SetNoneCacheXLora(st, reset_non_granular) ==
    LET cleared == [st EXCEPT !.kv_cache = FALSE]
    IN  IF reset_non_granular THEN ResetNonGranularState(cleared) ELSE cleared

\* The model's forward calls get_scalings
DoGetScalings ==
    /\ non_granular.calls < MaxScalingCalls
    /\ \E seq_len \in 1..MaxLen :
          non_granular' = [GetScalings(non_granular, seq_len)
                              EXCEPT !.op = "get_scalings"]
    /\ UNCHANGED xlora_inputs

\* CacheInstruction::Reset { reset_non_granular, .. }
DoResetXLora ==
    /\ \E reset_non_granular \in BOOLEAN :
          non_granular' = [SetNoneCacheXLora(non_granular, reset_non_granular)
                              EXCEPT !.returned = None,
                                     !.op = IF reset_non_granular
                                            THEN "reset_non_granular" ELSE "reset"]
    /\ UNCHANGED xlora_inputs

\* No X-LoRA model runs
XLoraIdle == NoXLoraInputs /\ NoNonGranular

\* The interrupt flag before any Ctrl-C
NoInterrupt ==
    /\ terminate_all_next_step = FALSE
    /\ fwdAtInterrupt = -1

\* terminate_handler, run on Ctrl-C while a step is running:
\* TERMINATE_ALL_NEXT_STEP.store(true, Ordering::SeqCst)
TerminateHandler ==
    /\ pc \notin {"idle", "done", "off"}
    /\ ~terminate_all_next_step
    /\ terminate_all_next_step' = TRUE
    /\ fwdAtInterrupt' = fwdCount
    /\ UNCHANGED <<cfgVars, seqs, modelCache, phase, stepVars, histVars>>

\* The cell of the single-layer specification, untouched by the pipeline
CellIdle ==
    /\ kv_cache = None
    /\ sliding_window = None
    /\ appended = <<>>

Init == InitWith(Models) /\ CellIdle /\ AllocIdle /\ NoInterrupt /\ SlotIdle /\ LoadIdle /\ F16Off /\ XLoraIdle

Next ==
    \/ StartStep /\ UNCHANGED <<cellVars, allocVars, intVars, loadVars, slotVars, xloraVars>>
    \/ LoopEnd /\ UNCHANGED <<cellVars, allocVars, intVars, loadVars, f16Vars, slotVars, xloraVars>>
    \/ ItemErr /\ UNCHANGED <<cellVars, allocVars, intVars, loadVars, f16Vars, slotVars, xloraVars>>
    \/ ItemOk /\ UNCHANGED <<cellVars, allocVars, intVars, loadVars, f16Vars, slotVars, xloraVars>>
    \/ PreOp /\ UNCHANGED <<cellVars, allocVars, intVars, loadVars, f16Vars, slotVars, xloraVars>>
    \/ Forward /\ UNCHANGED <<cellVars, allocVars, intVars, loadVars, f16Vars, slotVars, xloraVars>>
    \/ Scatter /\ UNCHANGED <<cellVars, allocVars, intVars, loadVars, f16Vars, slotVars, xloraVars>>
    \/ Collect /\ UNCHANGED <<cellVars, allocVars, intVars, loadVars, f16Vars, slotVars, xloraVars>>
    \/ PostOp /\ UNCHANGED <<cellVars, allocVars, intVars, loadVars, f16Vars, slotVars, xloraVars>>
    \/ Sample /\ UNCHANGED <<cellVars, allocVars, intVars, loadVars, f16Vars, slotVars, xloraVars>>

Spec == Init /\ [][Next]_vars

\* ------------------------------------------- steps under Ctrl-C
\* The handler may run at any point of a running step.  With the flag set no
\* further step is started: the flag asks for all sequences to be ended at
\* the next step.
NextInterrupt ==
    \/ StartStep /\ ~terminate_all_next_step /\ UNCHANGED <<cellVars, allocVars, intVars, loadVars, slotVars, xloraVars>>
    \/ LoopEnd /\ UNCHANGED <<cellVars, allocVars, intVars, loadVars, f16Vars, slotVars, xloraVars>>
    \/ ItemErr /\ UNCHANGED <<cellVars, allocVars, intVars, loadVars, f16Vars, slotVars, xloraVars>>
    \/ ItemOk /\ UNCHANGED <<cellVars, allocVars, intVars, loadVars, f16Vars, slotVars, xloraVars>>
    \/ PreOp /\ UNCHANGED <<cellVars, allocVars, intVars, loadVars, f16Vars, slotVars, xloraVars>>
    \/ Forward /\ UNCHANGED <<cellVars, allocVars, intVars, loadVars, f16Vars, slotVars, xloraVars>>
    \/ Scatter /\ UNCHANGED <<cellVars, allocVars, intVars, loadVars, f16Vars, slotVars, xloraVars>>
    \/ Collect /\ UNCHANGED <<cellVars, allocVars, intVars, loadVars, f16Vars, slotVars, xloraVars>>
    \/ PostOp /\ UNCHANGED <<cellVars, allocVars, intVars, loadVars, f16Vars, slotVars, xloraVars>>
    \/ Sample /\ UNCHANGED <<cellVars, allocVars, intVars, loadVars, f16Vars, slotVars, xloraVars>>
    \/ TerminateHandler /\ UNCHANGED <<cellVars, allocVars, loadVars, f16Vars, slotVars, xloraVars>>

SpecInterrupt == Init /\ [][NextInterrupt]_vars

\* ------------------------------- a step whose forward pass changes nothing
\* The batch is in its completion phase: every sequence owns the cache its
\* prompt step left (one unchunked pass, cloned out) and holds one sampled
\* token; the model cache is empty or holds the rows of another batch.
PromptCache(lens) ==
    ForwardDense("kv", None,
        MakePromptChunk(0, [k \in DOMAIN lens |-> NewSeq(k, lens[k]).toks])).cache.v

StaleCache == Some(<< << <<91, 0>> >> >>)

InitNoChange ==
    /\ backend = "dense"
    /\ prompt_batchsize \in Batchsizes
    /\ model = "inert"
    /\ \E lens \in Batches :
          seqs = [k \in DOMAIN lens |->
                    [toks |-> Append(NewSeq(k, lens[k]).toks, Tok(k, lens[k])),
                     cache |-> Some(PromptCache(lens)[k])]]
    /\ modelCache \in {None, StaleCache}
    /\ phase = "completion"
    /\ pc = "idle"
    /\ is_prompt = FALSE
    /\ pre_op = NoOp /\ post_op = NoOp
    /\ items = <<>> /\ idx = 0 /\ raw_logits = <<>> /\ logits = <<>>
    /\ result = "none"
    /\ preCount = 0 /\ postCount = 0 /\ fwdCount = 0 /\ sampleCount = 0
    /\ stepCount = 0
    /\ seqs0 = <<>> /\ cache0 = None /\ cachePre = None /\ cacheFwd = None
    /\ rowLog = <<>>
    /\ CellIdle
    /\ AllocIdle
    /\ NoInterrupt
    /\ SlotIdle
    /\ LoadIdle
    /\ F16Off
    /\ XLoraIdle

SpecNoChange == InitNoChange /\ [][Next]_vars

\* ------------------------------------------------- one dense cache cell
MaxAppends == 5     \* forward calls on the cell
MaxWindow == 3      \* largest sliding window tried
KvEntries == {1, 2}

\* Mutant: the layer's sliding window is not handed to the cache update
AttentionForwardNoWindow(k) ==
    /\ Len(appended) < MaxAppends
    /\ kv_cache' = UpdateKvCacheSlidingWindow(kv_cache, <<k>>, None).cell
    /\ appended' = appended \o k
    /\ UNCHANGED sliding_window

\* Attention::forward without PagedAttention, on the key/value k of one row:
\* Cache::update_kv_cache_sliding_window(kv_cache, k, v, mask, self.sliding_window, true)
AttentionForward(k) ==
    /\ Len(appended) < MaxAppends
    /\ kv_cache' = UpdateKvCacheSlidingWindow(kv_cache, <<k>>, sliding_window).cell
    /\ appended' = appended \o k
    /\ UNCHANGED sliding_window

\* set_none_cache on the cell
CellReset ==
    /\ kv_cache.some
    /\ kv_cache' = None
    /\ appended' = <<>>
    /\ UNCHANGED sliding_window

\* The pipeline of the single-layer specification: no step runs
PipeIdle ==
    /\ backend = "dense" /\ prompt_batchsize = None /\ model = "kv"
    /\ seqs = <<>> /\ modelCache = None /\ phase = "prompt"
    /\ pc = "off" /\ is_prompt = TRUE
    /\ pre_op = NoOp /\ post_op = NoOp
    /\ items = <<>> /\ idx = 0 /\ raw_logits = <<>> /\ logits = <<>>
    /\ result = "none"
    /\ preCount = 0 /\ postCount = 0 /\ fwdCount = 0 /\ sampleCount = 0
    /\ stepCount = 0
    /\ seqs0 = <<>> /\ cache0 = None /\ cachePre = None /\ cacheFwd = None
    /\ rowLog = <<>>
    /\ NoInterrupt

InitCell ==
    /\ PipeIdle
    /\ SlotIdle
    /\ LoadIdle
    /\ F16Off
    /\ XLoraIdle
    /\ kv_cache = None
    /\ sliding_window \in {None} \cup {Some(w) : w \in 1..MaxWindow}
    /\ appended = <<>>
    /\ AllocIdle

\* One token is appended per forward call
AppendOne == \E e \in KvEntries : AttentionForward(<<e>>)

NextCell ==
    \/ AppendOne /\ UNCHANGED <<pipeVars, allocVars>>
    \/ CellReset /\ UNCHANGED <<pipeVars, allocVars>>

SpecCell == InitCell /\ [][NextCell]_vars

\* ------------------------------------------ the allocator on its own
InitAlloc ==
    /\ PipeIdle
    /\ SlotIdle
    /\ LoadIdle
    /\ F16Off
    /\ XLoraIdle
    /\ CellIdle
    /\ AllocIdle

NextAlloc ==
    \/ DoAllocateFor /\ UNCHANGED <<pipeVars, cellVars>>
    \/ DoFork /\ UNCHANGED <<pipeVars, cellVars>>
    \/ DoAppendToken /\ UNCHANGED <<pipeVars, cellVars>>
    \/ DoWriteBeforeMutate /\ UNCHANGED <<pipeVars, cellVars>>
    \/ DoSwapOut /\ UNCHANGED <<pipeVars, cellVars>>
    \/ DoSwapIn /\ UNCHANGED <<pipeVars, cellVars>>
    \/ DoFree /\ UNCHANGED <<pipeVars, cellVars>>

SpecAlloc == InitAlloc /\ [][NextAlloc]_vars

\* ------------------------------------------ loading on its own
InitLoad ==
    /\ PipeIdle
    /\ SlotIdle
    /\ F16Off
    /\ XLoraIdle
    /\ CellIdle
    /\ AllocIdle
    /\ requested \in Requests
    /\ loaded = NotLoaded

NextLoad ==
    \/ DoLoad /\ UNCHANGED <<cfgVars, seqs, modelCache, phase, stepVars, histVars,
                              intVars, cellVars, allocVars, f16Vars,
                 slotVars, xloraVars>>
    \/ DoProcessInputs /\ UNCHANGED <<cfgVars, seqs, modelCache, phase, stepVars,
                                       histVars, intVars, cellVars, allocVars,
                                       f16Vars,
                 slotVars, xloraVars>>

SpecLoad == InitLoad /\ [][NextLoad]_vars

\* ------------------------------------------ slot mappings on their own
InitSlots ==
    /\ PipeIdle
    /\ LoadIdle
    /\ F16Off
    /\ XLoraIdle
    /\ CellIdle
    /\ AllocIdle
    /\ slot_args \in SlotArgs
    /\ slot_mappings = [kind |-> "none", out |-> Built(<<>>)]

NextSlots ==
    \/ DoPromptSlots /\ UNCHANGED <<cfgVars, seqs, modelCache, phase, stepVars,
                                     histVars, intVars, loadVars, f16Vars, cellVars,
                                     allocVars, xloraVars>>
    \/ DoCompletionSlots /\ UNCHANGED <<cfgVars, seqs, modelCache, phase, stepVars,
                                         histVars, intVars, loadVars, f16Vars,
                                         cellVars, allocVars, xloraVars>>

SpecSlots == InitSlots /\ [][NextSlots]_vars

\* ------------------------------- slot mappings of batches on their own
InitSlotBatch ==
    /\ PipeIdle
    /\ LoadIdle
    /\ F16Off
    /\ XLoraIdle
    /\ CellIdle
    /\ AllocIdle
    /\ slot_args \in SlotBatchArgs
    /\ slot_mappings = [kind |-> "none", out |-> Built(<<>>)]

SpecSlotBatch == InitSlotBatch /\ [][NextSlots]_vars

\* ------------------------------------ X-LoRA input building on its own
InitXLoraInputs ==
    /\ PipeIdle
    /\ LoadIdle
    /\ SlotIdle
    /\ F16Off
    /\ CellIdle
    /\ AllocIdle
    /\ NoNonGranular
    /\ xlora_inputs \in [args : XLoraArgs, built : {None}]

NextXLoraInputs ==
    DoXLoraProcessInputs /\ UNCHANGED <<cfgVars, seqs, modelCache, phase, stepVars,
                                        histVars, intVars, loadVars, f16Vars,
                                        slotVars, cellVars, allocVars>>

SpecXLoraInputs == InitXLoraInputs /\ [][NextXLoraInputs]_vars

\* ------------------------------- non-granular X-LoRA scalings on their own
InitNonGranular ==
    /\ PipeIdle
    /\ LoadIdle
    /\ SlotIdle
    /\ F16Off
    /\ CellIdle
    /\ AllocIdle
    /\ NoXLoraInputs
    /\ \E tgt \in 0..MaxTgtIndex : non_granular = NewNonGranular(tgt)

NextNonGranular ==
    \/ DoGetScalings /\ UNCHANGED <<cfgVars, seqs, modelCache, phase, stepVars,
                                     histVars, intVars, loadVars, f16Vars,
                                     slotVars, cellVars, allocVars>>
    \/ DoResetXLora /\ UNCHANGED <<cfgVars, seqs, modelCache, phase, stepVars,
                                    histVars, intVars, loadVars, f16Vars,
                                    slotVars, cellVars, allocVars>>

SpecNonGranular == InitNonGranular /\ [][NextNonGranular]_vars

\* ================================================================ claims
StepOk == pc = "done" /\ result = "ok"
StepErr == pc = "done" /\ result = "err"
Dense == backend = "dense"

\* Every token of the contexts of a logits row is padding or a token of sequence k
RowOfSeq(k, row) ==
    \A t \in 1..Len(row) : \A e \in 1..Len(row[t]) :
        row[t][e][1] = 0 \/ row[t][e][1] \div 10 = k

\* C1: after a successful step, result slot k holds the row the model returned
\* for sequence k in the last chunk that contains k: no slot is empty, none
\* holds a row of another sequence.
C1_ScatterBySeqIndices ==
    StepOk =>
        \A k \in 1..Len(logits) :
            /\ logits[k].some
            /\ rowLog[k] # <<>>
            /\ logits[k].v = rowLog[k][Len(rowLog[k])]
            /\ RowOfSeq(k, logits[k].v)

\* C1 witness: a successful step one of whose chunks starts with another
\* sequence than the first (row 0 of the chunk is not sequence 0)
C1_Witness ==
    /\ StepOk
    /\ \E c \in 1..Len(items) : items[c].seq_indices[1] # 1

\* C2: a prompt step with prompt_batchsize and PagedAttention metadata gets
\* exactly one item, an error, and no chunk; the step returns the error and
\* neither the model nor sampling runs.
C2_PagedChunkedPromptFails ==
    (pc \notin {"idle"} /\ backend = "paged" /\ prompt_batchsize.some /\ is_prompt) =>
        /\ Len(items) = 1
        /\ ~items[1].ok
        /\ fwdCount = 0 /\ sampleCount = 0
        /\ pc = "done" => result = "err"

C2_Witness ==
    /\ StepErr /\ backend = "paged" /\ prompt_batchsize.some /\ is_prompt
    /\ items = <<Err("PagedAttention does not yet support prompt batching.")>>

\* The step failed on a chunk: the builder's item was an error or the forward
\* failed (the loop did not reach the end of the iterator)
ChunkFailed == StepErr /\ Dense /\ idx < Len(items) /\ preCount = 1

\* C3: when the builder or the forward fails on a chunk, the step returns the
\* error, post-instruction and sampling do not run, no sequence changes, and
\* no cache mutation of the earlier chunks remains: the model cache is as the
\* pre-instruction left it.
C3_NoPartialCommit ==
    ChunkFailed =>
        /\ postCount = 0 /\ sampleCount = 0
        /\ seqs = seqs0
        /\ modelCache = cachePre

ExpectedPre ==
    CASE pre_op.kind = "In" -> Some([k \in 1..Len(seqs0) |-> seqs0[k].cache.v])
      [] pre_op.kind = "Reset" -> None
      [] pre_op.kind = "Nothing" -> cache0

C5_PostOnceAfterLastForward ==
    Dense =>
        /\ postCount <= 1
        /\ postCount = 1 => fwdCount = Len(items)
        /\ (pc = "sample" \/ sampleCount = 1 \/ StepOk) => postCount = 1
        /\ pc = "sample" =>
              CASE post_op.kind = "Out" ->
                     /\ modelCache = cacheFwd
                     /\ \A k \in 1..Len(seqs) :
                           /\ seqs[k].cache = Some(cacheFwd.v[k])
                           /\ seqs[k].toks = seqs0[k].toks
                [] post_op.kind = "Reset" -> modelCache = None /\ seqs = seqs0
                [] post_op.kind = "Nothing" -> modelCache = cacheFwd /\ seqs = seqs0

C5_Witness ==
    /\ StepOk /\ Dense /\ fwdCount >= 2 /\ postCount = 1
    /\ post_op.kind = "Out"
    /\ \A k \in 1..Len(seqs) : seqs[k].cache = Some(cacheFwd.v[k])

\* The final-position logits of one unchunked pass over the prompt
UnchunkedLogits(toks) ==
    ForwardDense("kv", None, GetPromptInput(<<toks>>, None, None)[1].inputs).logits[1]

C7_InOutRoundTrip ==
    (/\ pc \in {"sample", "done"} /\ preCount = 1 /\ postCount = 1
     /\ pre_op.kind = "In" /\ post_op.kind = "Out"
     /\ cacheFwd = cachePre) =>
        \A k \in 1..Len(seqs) : seqs[k].cache = seqs0[k].cache

\* C7 witness: the round trip ran to the end over a model cache that held
\* the rows of another batch before the In
C7_Witness ==
    /\ StepOk /\ preCount = 1 /\ postCount = 1 /\ fwdCount = 1
    /\ pre_op.kind = "In" /\ post_op.kind = "Out"
    /\ cacheFwd = cachePre /\ cache0 # cachePre /\ cache0.some
    /\ \A k \in 1..Len(seqs) : seqs[k].cache = seqs0[k].cache /\ seqs[k].cache.some

\* C8: after N one-token updates of a cell that started empty, the cached
\* length is N without a sliding window and min(N, window) with one, and the
\* content is the most recent min(N, window) appended entries in order.
C8_DenseAppendLength ==
    LET N == Len(appended)
        kept == IF sliding_window.some THEN MinOf(N, sliding_window.v) ELSE N
    IN  /\ kv_cache.some <=> N > 0
        /\ kv_cache.some =>
              /\ Len(kv_cache.v) = 1
              /\ Len(kv_cache.v[1]) = kept
              /\ kv_cache.v[1] = SubSeq(appended, N - kept + 1, N)

\* C8 witness: more entries were appended than the window holds
C8_Witness ==
    /\ sliding_window.some /\ sliding_window.v > 1
    /\ Len(appended) > sliding_window.v + 1
    /\ kv_cache.some /\ Len(kv_cache.v[1]) = sliding_window.v

\* The blocks of a pool that some sequence holds
InUse(pool) == {b \in pool : block_engine.ref_counts[b] > 0}

\* How many tables name block b
Holders(b) ==
    Cardinality({s \in AllocSeqs : b \in TableBlocks(block_engine.block_tables[s])})

\* append_token(s) succeeded in this step: s has one token more and held
\* blocks before (fork gives tokens only to a sequence without blocks)
Appended(s) ==
    /\ block_engine.block_tables[s] # <<>>
    /\ block_engine'.num_toks[s] = block_engine.num_toks[s] + 1

\* No block of another sequence's table is altered by the append to s, and no
\* other table changes
OthersUntouched(s) ==
    \A a \in AllocSeqs \ {s} :
        /\ block_engine'.block_tables[a] = block_engine.block_tables[a]
        /\ \A b \in TableBlocks(block_engine.block_tables[a]) :
              block_engine'.data[b] = block_engine.data[b]

\* B's entry i is a fresh copy of the block A holds there, with the token
\* added, and that block has one reference fewer
FreshCopyAt(s, tA, i) ==
    LET be == block_engine
        after == block_engine'
        tB == after.block_tables[s]
    IN  /\ Len(tB) = Len(tA)
        /\ i <= Len(tA)
        /\ tB[i] # tA[i]
        /\ be.ref_counts[tB[i]] = 0 /\ after.ref_counts[tB[i]] = 1
        /\ after.ref_counts[tA[i]] = be.ref_counts[tA[i]] - 1
        /\ after.data[tB[i]] = Append(be.data[tA[i]], Slot(be.num_toks[s]))

\* B has one entry more than A, a new block that holds the token alone; no
\* block of A gains or loses a reference
NewBlockAt(s, tA, i) ==
    LET be == block_engine
        after == block_engine'
        tB == after.block_tables[s]
    IN  /\ Len(tB) = Len(tA) + 1
        /\ i = Len(tA) + 1
        /\ be.ref_counts[tB[i]] = 0 /\ after.ref_counts[tB[i]] = 1
        /\ after.data[tB[i]] = <<Slot(be.num_toks[s])>>
        /\ \A b \in TableBlocks(tA) : after.ref_counts[b] = be.ref_counts[b]

\* C9 as stated: after forking A into B and appending a token to B, no block
\* of A is altered and the tables differ only at the block that received the
\* write, where B holds a fresh copy and the old block lost one reference.
C9_ForkAppendAlwaysCopies ==
    [][\A s \in AllocSeqs : Appended(s) =>
        /\ OthersUntouched(s)
        /\ \A a \in AllocSeqs \ {s} :
              block_engine.block_tables[a] = block_engine.block_tables[s] =>
                 LET tA == block_engine.block_tables[a]
                     i == WriteIndex(block_engine, s)
                 IN  /\ \A j \in 1..Len(tA) :
                           j # i => block_engine'.block_tables[s][j] = tA[j]
                     /\ FreshCopyAt(s, tA, i)
    ]_vars

\* C9 (amended): after forking A into B and appending a token to B, no block
\* of A is altered and the tables differ only at the block that received the
\* write. When the token lands in a block B shares with A, B holds a fresh
\* copy there and the old block lost one reference; when the shared table has
\* no free slot, B's table has one new block at its end, nothing is copied
\* and no reference count of A's blocks changes.
C9_ForkAppendCopyOnWrite ==
    [][\A s \in AllocSeqs : Appended(s) =>
        /\ OthersUntouched(s)
        /\ \A a \in AllocSeqs \ {s} :
              block_engine.block_tables[a] = block_engine.block_tables[s] =>
                 LET tA == block_engine.block_tables[a]
                     i == WriteIndex(block_engine, s)
                 IN  /\ \A j \in 1..Len(tA) :
                           j # i => block_engine'.block_tables[s][j] = tA[j]
                     /\ IF i <= Len(tA) THEN FreshCopyAt(s, tA, i)
                                        ELSE NewBlockAt(s, tA, i)
    ]_vars

\* C9 witness: B, forked from A, has received a token in a block it shared
\* with A: it holds the copy with its token, A holds the block as it was, and
\* the tables agree on the other block, which both still share
C9_Witness ==
    \E a \in AllocSeqs, s \in AllocSeqs :
        LET tA == block_engine.block_tables[a]
            tB == block_engine.block_tables[s]
            n == block_engine.num_toks[a]
        IN  /\ a # s /\ Len(tA) = 2 /\ Len(tB) = 2
            /\ tA[1] = tB[1] /\ tA[2] # tB[2]
            /\ block_engine.ref_counts[tA[1]] = 2
            /\ block_engine.ref_counts[tA[2]] = 1
            /\ block_engine.ref_counts[tB[2]] = 1
            /\ block_engine.num_toks[s] = n + 1
            /\ block_engine.data[tB[2]] =
                   Append(block_engine.data[tA[2]], Slot(n))
            /\ block_engine.data[tA[2]] # <<>>

\* C10: after any sequence of allocator calls, the failing ones included, the
\* blocks in use and the free blocks of each pool add up to its capacity: no
\* block is both, none is lost, and a block is in use exactly when a table
\* names it.
C10_BlockConservation ==
    /\ Cardinality(InUse(GpuBlocks)) + Cardinality(block_engine.free_gpu) = NumGpuBlocks
    /\ Cardinality(InUse(CpuBlocks)) + Cardinality(block_engine.free_cpu) = NumCpuBlocks
    /\ block_engine.free_gpu = GpuBlocks \ InUse(GpuBlocks)
    /\ block_engine.free_cpu = CpuBlocks \ InUse(CpuBlocks)
    /\ \A b \in Blocks : block_engine.ref_counts[b] = Holders(b)

\* C10 witness: a call has just failed for want of blocks while one sequence
\* is swapped out and another holds the whole device pool
C10_Witness ==
    /\ last_op = "OutOfMemory"
    /\ \E s \in AllocSeqs : OnCpu(block_engine, s)
    /\ block_engine.free_gpu = {}
    /\ Cardinality(InUse(GpuBlocks)) = NumGpuBlocks

\* C11: allocate_for fails with OutOfMemory exactly when the device free list
\* holds fewer blocks than the call needs, and a failed call leaves every
\* block table, reference count and free list as it was.
C11_AllocateForOutOfMemory ==
    /\ [](\A s \in AllocSeqs, n \in 1..MaxSlots :
            LET r == AllocateFor(block_engine, s, n)
            IN  /\ ~r.ok <=> Cardinality(block_engine.free_gpu) < BlocksFor(n)
                /\ ~r.ok => r.be = block_engine)
    /\ [][last_op' = "OutOfMemory" => block_engine' = block_engine]_vars

\* C11 witness: two sequences with tokens hold blocks of the device pool, one
\* block is free and no sequence is swapped out, so that only allocate_for of
\* two blocks can have failed; the call has just failed
C11_Witness ==
    /\ last_op = "OutOfMemory"
    /\ Cardinality(block_engine.free_gpu) = 1
    /\ block_engine.free_cpu = CpuBlocks
    /\ \A s \in 1..2 : OnGpu(block_engine, s) /\ block_engine.num_toks[s] > 0
    /\ ~AllocateFor(block_engine, 1, MaxSlots).ok

\* C12: once the interrupt flag is set during a dense prompt step of several
\* chunks, the model is invoked on no further chunk: at most the forward that
\* was running when the flag was set completes.
C12_InterruptStopsChunks ==
    (Dense /\ is_prompt /\ terminate_all_next_step /\ Len(items) >= 2) =>
        fwdCount <= fwdAtInterrupt + 1

\* The tokens sequence k has been through the model with after the step: those
\* it held when the step began (the token the step samples is cached by the
\* next step)
LogicalTokens(k) == Len(seqs0[k].toks)

\* A step that persists the cache and starts from a coherent one: a prompt
\* step after a reset, or a completion step that restores caches holding every
\* token but the one sampled last
PersistingStep ==
    /\ StepOk /\ Dense /\ model = "kv" /\ post_op.kind = "Out"
    /\ \/ is_prompt /\ pre_op.kind = "Reset"
       \/ /\ ~is_prompt /\ pre_op.kind = "In"
          /\ \A k \in 1..Len(seqs0) :
                /\ seqs0[k].cache.some
                /\ Len(seqs0[k].cache.v) = Len(seqs0[k].toks) - 1

\* C13: after every step that persists the cache, each sequence's cache holds
\* as many positions as the sequence has logical tokens, also for a sequence
\* that was padded in a prompt chunk.
C13_TokenCountEqualsCacheLength ==
    PersistingStep =>
        \A k \in 1..Len(seqs) :
            seqs[k].cache.some /\ Len(seqs[k].cache.v) = LogicalTokens(k)

\* The options of the request exclude one another
IncompatibleOptions ==
    \/ requested.prompt_batchsize.some /\ requested.paged_attn_config
    \/ requested.prompt_batchsize.some /\ requested.processor = "idefics2"
    \/ requested.paged_attn_config /\ ~requested.mapper_is_dummy
    \/ requested.paged_attn_config /\ requested.kind = "AdapterQuantized"

\* C14: when incompatible options are requested together, the load or the
\* request ends with an error.
C14_IncompatibleOptionsFail ==
    (IncompatibleOptions /\ loaded.pc = "done") => loaded.result = "err"

\* C15: when the model forward is about to run on a chunk, the matmul-via-f16
\* mode is on exactly if the chunk is a prompt chunk longer than the
\* threshold; it is off for a completion chunk.
C15_F16PerChunk ==
    (pc = "forward" /\ model = "kv") =>
        (use_matmul_via_f16 <=>
            (is_prompt /\ PromptChunkViaF16(items[idx + 1].inputs)))

\* The slot of logical position p (from 0) under block table T
SlotOfPosition(T, block_size, p) == T[p \div block_size + 1] * block_size + (p % block_size)

\* C16: with block tables that cover the positions asked for, a prompt
\* chunk maps positions 0..prompt_len-1 of every sequence, in order, and a
\* completion chunk maps position length-1, each to
\* table[p div block_size] * block_size + (p mod block_size).
C16_SlotMapping ==
    LET a == slot_args
        n == Len(a.batch)
        T(j) == a.batch[j].table.v
        covered(j, p) == a.batch[j].table.some /\ p \div a.block_size < Len(T(j))
    IN  /\ (/\ slot_mappings.kind = "prompt"
            /\ \A j \in 1..n : \A p \in 0..a.batch[j].len - 1 : covered(j, p)) =>
              /\ ~slot_mappings.out.panic
              /\ \A j \in 1..n : \A p \in 0..a.batch[j].len - 1 :
                    slot_mappings.out.v.slot_mappings[j][p + 1]
                        = SlotOfPosition(T(j), a.block_size, p)
        /\ (/\ slot_mappings.kind = "completion"
            /\ \A j \in 1..n : covered(j, a.batch[j].len - 1)) =>
              /\ ~slot_mappings.out.panic
              /\ \A j \in 1..n :
                    slot_mappings.out.v.slot_mappings[j]
                        = <<SlotOfPosition(T(j), a.block_size, a.batch[j].len - 1)>>

\* A prompt whose positions lie in two different blocks of more than one slot
C16_Witness ==
    /\ slot_mappings.kind = "prompt"
    /\ ~slot_mappings.out.panic
    /\ slot_args.block_size = 2
    /\ slot_args.batch = <<[len |-> 3, table |-> Some(<<2, 1>>)]>>
    /\ slot_mappings.out.v.slot_mappings = <<<<4, 5, 2>>>>

\* C17: in the single chunk of an unchunked prompt step every row is padded
\* to the longest prompt, and the context span (start, length) of every row
\* selects the last `length` tokens of that row's own prompt, never padding.
C17_ContextSpanOwnTokens ==
    (is_prompt /\ pc # "idle" /\ ~prompt_batchsize.some /\ Len(items) = 1 /\ items[1].ok) =>
        LET chunk == items[1].inputs
            max_len == MaxOf({Len(seqs0[k].toks) : k \in 1..Len(seqs0)})
        IN  \A j \in 1..Len(chunk.input) :
                LET own == seqs0[items[1].seq_indices[j]].toks
                    start == chunk.context_lens[j][1]
                    length == chunk.context_lens[j][2]
                IN  /\ Len(chunk.input[j]) = max_len
                    /\ start + length = Len(own)
                    /\ SubSeq(chunk.input[j], start + 1, start + length)
                         = SubSeq(own, start + 1, start + length)

\* C18: in a chunked dense prompt step that started from an empty cache, when
\* chunk i >= 1 is about to be forwarded the resident cache has one row per row
\* of the chunk, and row j holds exactly the entries of the first i chunks of
\* sequence seq_indices[j].
C18_ChunkRowsMatchCache ==
    (/\ Dense /\ model = "kv" /\ is_prompt /\ prompt_batchsize.some
     /\ pre_op.kind = "Reset" /\ pc = "forward" /\ idx >= 1) =>
        LET chunk == items[idx + 1]
            B == prompt_batchsize.v
        IN  /\ modelCache.some
            /\ Len(modelCache.v) = Len(chunk.inputs.input)
            /\ \A j \in 1..Len(chunk.inputs.input) :
                  LET own == seqs0[chunk.seq_indices[j]].toks
                  IN  modelCache.v[j] = [p \in 1..idx * B |-> <<own[p], p - 1>>]

\* A chunked prompt step on the dense backend, its inputs built
ChunkedPromptStep ==
    Dense /\ is_prompt /\ prompt_batchsize.some /\ pc \notin {"idle", "off"}

\* C19: with prompt_batchsize = B on the dense backend there are
\* max ceil(len/B) chunks; chunk i (from 0) holds exactly the sequences with
\* more than i*B prompt tokens, in their original order, each with its tokens
\* [i*B, min((i+1)*B, len)) followed by padding only; and the chunks are
\* forwarded in increasing i.
C19_ChunkMembership ==
    ChunkedPromptStep =>
        LET B == prompt_batchsize.v
            n == Len(seqs0)
            len(k) == Len(seqs0[k].toks)
        IN  /\ \A k \in 1..n : len(k) <= Len(items) * B
            /\ \E k \in 1..n : len(k) > (Len(items) - 1) * B
            /\ \A c \in 1..Len(items) : items[c].ok =>
                  LET i == c - 1
                      ns == items[c].seq_indices
                      rows == items[c].inputs.input
                  IN  /\ {ns[j] : j \in 1..Len(ns)} = {k \in 1..n : len(k) > i * B}
                      /\ \A j \in 1..Len(ns) - 1 : ns[j] < ns[j + 1]
                      /\ Len(rows) = Len(ns)
                      /\ \A j \in 1..Len(ns) :
                            LET k == ns[j]
                                hi == IF (i + 1) * B < len(k) THEN (i + 1) * B ELSE len(k)
                            IN  /\ Len(rows[j]) >= hi - i * B
                                /\ \A q \in 1..Len(rows[j]) :
                                      rows[j][q] = IF q <= hi - i * B
                                                   THEN seqs0[k].toks[i * B + q]
                                                   ELSE 0
            /\ pc = "forward" => fwdCount = idx

\* The second chunk of a batch whose first sequence had one chunk only is
\* about to be forwarded
C19_Witness ==
    /\ ChunkedPromptStep
    /\ pc = "forward" /\ idx = 1
    /\ Len(seqs0) = 2
    /\ Len(seqs0[1].toks) = 1 /\ Len(seqs0[2].toks) = 3
    /\ prompt_batchsize.v = 2
    /\ items[2].ok /\ items[2].seq_indices = <<2>>

\* C20: in chunk i of a chunked prompt every positional input of a row
\* continues from i * prompt_batchsize: the sequence-length offset is i*B, the
\* position id is i*B plus the tokens of the slice, and the kernel position of
\* the row's t-th token is i*B + t, so that a sequence's positions run
\* 0..len-1 over its chunks.
C20_PositionsContinue ==
    ChunkedPromptStep =>
        \A c \in 1..Len(items) : items[c].ok =>
            LET i == c - 1
                B == prompt_batchsize.v
                chunk == items[c].inputs
            IN  \A j \in 1..Len(chunk.input) :
                    LET len == Len(seqs0[items[c].seq_indices[j]].toks)
                        hi == IF (i + 1) * B < len THEN (i + 1) * B ELSE len
                    IN  /\ chunk.positions[j] = i * B
                        /\ chunk.position_ids[j] = hi
                        /\ \A t \in 1..hi - i * B :
                              chunk.positions_kernel[j][t] = i * B + t - 1

\* A completion step of a model with a KV cache, its inputs built
CompletionStep ==
    ~is_prompt /\ ~has_no_kv_cache /\ pc \notin {"idle", "off"}

\* C21: the completion step has one chunk; it holds one input token per
\* sequence, the sequence's last token, at position offset length - 1, in the
\* order of the batch (seq_indices is the identity).
C21_CompletionChunk ==
    CompletionStep =>
        /\ Len(items) = 1
        /\ items[1].ok =>
              LET chunk == items[1].inputs
                  n == Len(seqs0)
              IN  /\ items[1].seq_indices = [k \in 1..n |-> k]
                  /\ Len(chunk.input) = n /\ Len(chunk.positions) = n
                  /\ \A k \in 1..n :
                        LET toks == seqs0[k].toks
                        IN  /\ chunk.input[k] = <<toks[Len(toks)]>>
                            /\ chunk.positions[k] = Len(toks) - 1

\* A completion chunk over two sequences of different lengths
C21_Witness ==
    /\ CompletionStep /\ pc = "forward"
    /\ Len(seqs0) = 2 /\ Len(seqs0[1].toks) = 2 /\ Len(seqs0[2].toks) = 4
    /\ items[1].ok
    /\ items[1].inputs.input = <<<<seqs0[1].toks[2]>>, <<seqs0[2].toks[4]>>>>
    /\ items[1].inputs.positions = <<1, 3>>

\* C22: in a paged prompt chunk over a batch whose longest prompt has M
\* tokens, the slot-mapping row of every sequence has M entries; for a
\* sequence of L tokens the entries [L, M) are the pad-slot sentinel, and
\* when it has a block table the entries [0, L) are slots of its own blocks,
\* so no real slot stands at a padding position.
C22_PaddingSlotsArePad ==
    (slot_mappings.kind = "prompt" /\ ~slot_mappings.out.panic) =>
        LET a == slot_args
            n == Len(a.batch)
            M == MaxOf({a.batch[j].len : j \in 1..n})
            rows == slot_mappings.out.v.slot_mappings
        IN  /\ Len(rows) = n
            /\ \A j \in 1..n :
                  LET L == a.batch[j].len
                  IN  /\ Len(rows[j]) = M
                      /\ \A p \in L..M - 1 : rows[j][p + 1] = PAD_SLOT_ID
                      /\ a.batch[j].table.some =>
                            \A p \in 0..L - 1 :
                               /\ rows[j][p + 1] # PAD_SLOT_ID
                               /\ \E b \in 1..Len(a.batch[j].table.v) :
                                     rows[j][p + 1] \div a.block_size
                                         = a.batch[j].table.v[b]

\* Two prompts of one and three tokens, each with its own blocks: the short
\* one's row ends with two pad slots
C22_Witness ==
    /\ slot_mappings.kind = "prompt"
    /\ ~slot_mappings.out.panic
    /\ slot_args.block_size = 2
    /\ slot_args.batch = <<[len |-> 1, table |-> Some(<<0>>)],
                           [len |-> 3, table |-> Some(<<2, 3>>)]>>
    /\ slot_mappings.out.v.slot_mappings = <<<<0, -1, -1>>, <<4, 5, 6>>>>

\* Index in table T at which the block table handed to the kernel begins
\* when T is cut for a window of W tokens
SlideIdxOf(T, block_size, W) ==
    Len(T) - Len(CompletionBlockTable(T, block_size, Some(W)))

\* C23: in a paged completion chunk with a sliding window of W tokens the
\* block table handed to the kernel is a trailing suffix of the sequence's
\* block table, the whole table while it fits in the window; the index at
\* which the suffix begins never decreases as the table grows; the slot of
\* the new token is computed from the whole table and emitted whatever W is.
C23_SlidingWindowBlockTable ==
    (/\ slot_mappings.kind = "completion"
     /\ ~slot_mappings.out.panic
     /\ slot_args.sliding_window.some) =>
        LET a == slot_args
            T == a.batch[1].table.v
            W == a.sliding_window.v
            out == slot_mappings.out.v
            kept == out.block_tables[1]
            first == Len(T) - Len(kept)
        IN  /\ kept = SubSeq(T, first + 1, Len(T))
            /\ Len(T) * a.block_size <= W => kept = T
            /\ \A m \in 0..Len(T) :
                  SlideIdxOf(SubSeq(T, 1, m), a.block_size, W) <= first
            /\ out.slot_mappings[1]
                  = <<SlotOfPosition(T, a.block_size, a.batch[1].len - 1)>>
            /\ out.slot_mappings
                  = CompletionPagedMeta(a.batch, a.block_size, None).v.slot_mappings

\* A window of one block over a table of two: only the last block is handed
\* over, and the new token's slot lies in it
C23_Witness ==
    /\ slot_mappings.kind = "completion"
    /\ ~slot_mappings.out.panic
    /\ slot_args.block_size = 1
    /\ slot_args.sliding_window = Some(1)
    /\ slot_args.batch = <<[len |-> 2, table |-> Some(<<2, 1>>)]>>
    /\ slot_mappings.out.v.block_tables = <<<<1>>>>
    /\ slot_mappings.out.v.slot_mappings = <<<<1>>>>

\* Tokens of a sequence of len tokens stored in the blocks of its table T
\* from index first on (block b holds positions b * block_size ..
\* (b + 1) * block_size - 1)
TokensInBlocksFrom(T, block_size, len, first) ==
    Cardinality({p \in 0..len - 1 :
                    p \div block_size >= first /\ p \div block_size < Len(T)})

\* C24: in a paged completion chunk the context length passed for a
\* sequence (min(length, W) under a sliding window W) never exceeds the
\* number of the sequence's tokens stored in the blocks of the block table
\* handed to the kernel, for every W >= 1 and block size >= 1.  Stated for
\* tables with exactly the blocks the sequence's tokens need.
C24_ContextLenWithinKeptBlocks ==
    (/\ slot_mappings.kind = "completion"
     /\ ~slot_mappings.out.panic
     /\ Len(slot_args.batch[1].table.v)
           = (slot_args.batch[1].len - 1) \div slot_args.block_size + 1) =>
        LET a == slot_args
            T == a.batch[1].table.v
            out == slot_mappings.out.v
            first == Len(T) - Len(out.block_tables[1])
        IN  out.context_lens[1]
                <= TokensInBlocksFrom(T, a.block_size, a.batch[1].len, first)

\* Sequence j of the batch has a block table with fewer than
\* (p div block_size) + 1 entries for position p
TableTooSmall(j, p) ==
    /\ slot_args.batch[j].table.some
    /\ Len(slot_args.batch[j].table.v) < p \div slot_args.block_size + 1

TablesCoverPrompts ==
    \A j \in 1..Len(slot_args.batch) :
        ~TableTooSmall(j, slot_args.batch[j].len - 1)

\* C30: a paged prompt chunk built for sequences that have no block table,
\* including a batch in which no sequence has one, is built, and every
\* slot-mapping entry of those sequences is the pad-slot sentinel.
C30_NoTableAllPad ==
    (/\ slot_mappings.kind = "prompt"
     /\ TablesCoverPrompts
     /\ \E j \in 1..Len(slot_args.batch) : ~slot_args.batch[j].table.some) =>
        /\ ~slot_mappings.out.panic
        /\ \A j \in 1..Len(slot_args.batch) :
              ~slot_args.batch[j].table.some =>
                 \A p \in 1..Len(slot_mappings.out.v.slot_mappings[j]) :
                     slot_mappings.out.v.slot_mappings[j][p] = PAD_SLOT_ID

\* Tokens already processed for row j of chunk c: the chunk offset for a
\* prompt chunk (also built for every step of a model without a KV cache),
\* length - 1 for a completion chunk
ProcessedBefore(c, j) ==
    IF is_prompt \/ has_no_kv_cache
    THEN IF prompt_batchsize.some THEN (c - 1) * prompt_batchsize.v ELSE 0
    ELSE Len(seqs0[items[c].seq_indices[j]].toks) - 1

\* Tokens of its own that the sequence of row j has in chunk c
OwnTokensInChunk(c, j) ==
    LET len == Len(seqs0[items[c].seq_indices[j]].toks)
        lo == ProcessedBefore(c, j)
        hi == IF is_prompt \/ has_no_kv_cache
              THEN IF prompt_batchsize.some
                   THEN MinOf(c * prompt_batchsize.v, len)
                   ELSE len
              ELSE len
    IN  hi - lo

\* Tokens of row j of chunk c, padding included
RowTokensInChunk(c, j) == Len(items[c].inputs.input[j])

\* The cumulative arrays of every chunk built are the running sums of the
\* lengths q_len, and of q_len plus the tokens already processed
CumulativeSeqlensAre(q_len(_, _)) ==
    pc \notin {"idle", "off"} =>
        \A c \in 1..Len(items) : items[c].ok =>
            LET chunk == items[c].inputs
                n == Len(chunk.input)
                cq == chunk.cumulative_seqlens_q
                ck == chunk.cumulative_seqlens_k
                k_len(j) == q_len(c, j) + ProcessedBefore(c, j)
            IN  /\ Len(cq) = n + 1 /\ Len(ck) = n + 1
                /\ cq[1] = 0 /\ ck[1] = 0
                /\ \A j \in 1..n : /\ cq[j + 1] = cq[j] + q_len(c, j)
                                   /\ ck[j + 1] = ck[j] + k_len(j)
                /\ chunk.max_q = MaxOf({q_len(c, j) : j \in 1..n})
                /\ chunk.max_k = MaxOf({k_len(j) : j \in 1..n})

C28_AnyMoeTargetWithoutPagedAttention ==
    (requested.loader = "anymoe" /\ loaded.pc # "requested") => ~loaded.received

\* process_inputs has run for a completion step of an X-LoRA model that keeps
\* a KV cache
XLoraCompletionBuilt ==
    /\ xlora_inputs.built.some
    /\ ~xlora_inputs.args.is_prompt
    /\ ~xlora_inputs.args.no_kv_cache

\* C27: for an X-LoRA completion step exactly one model input is produced,
\* and its 'full' inputs hold all tokens of every sequence, whether or not
\* prompt_batchsize is configured.  Stated for the dense backend, on which a
\* prompt batch size does not make get_prompt_input fail.
C27_XLoraCompletionFullInputs ==
    (XLoraCompletionBuilt /\ ~xlora_inputs.args.paged_attn) =>
        LET built == xlora_inputs.built.v
            toks == XLoraToks(xlora_inputs.args)
            n == Len(toks)
        IN  /\ Len(built) = 1
            /\ built[1].ok
            /\ Len(built[1].inputs.input_ids_full) = n
            /\ \A k \in 1..n :
                  /\ Len(built[1].inputs.input_ids_full[k]) >= Len(toks[k])
                  /\ SubSeq(built[1].inputs.input_ids_full[k], 1, Len(toks[k]))
                        = toks[k]

\* Once the scalings are cached a get_scalings call returns them, runs no
\* scaling pass and leaves non_granular_index and the cache alone
CachedScalingsReturned ==
    (non_granular.scalings_cache.some /\ non_granular'.op = "get_scalings"
        /\ non_granular'.calls = non_granular.calls + 1) =>
        /\ non_granular'.returned = non_granular.scalings_cache
        /\ non_granular'.passes = non_granular.passes
        /\ non_granular'.non_granular_index = non_granular.non_granular_index
        /\ non_granular'.scalings_cache = non_granular.scalings_cache

\* What a Reset does to the non-granular state and to the KV cache
ResetEffect ==
    non_granular'.calls = non_granular.calls =>
        /\ ~non_granular'.kv_cache
        /\ non_granular'.op = "reset_non_granular" =>
              /\ non_granular'.non_granular_index = 0
              /\ ~non_granular'.scalings_cache.some
        /\ non_granular'.op = "reset" =>
              /\ non_granular'.non_granular_index = non_granular.non_granular_index
              /\ non_granular'.scalings_cache = non_granular.scalings_cache

\* C29: with a non-granular target index configured, once the scalings are
\* cached every later get_scalings returns them without a scaling pass and
\* without changing non_granular_index, until a Reset with
\* reset_non_granular = true, which sets the index to 0 and clears the cached
\* scalings; a Reset with reset_non_granular = false clears only the KV
\* cache; and always non_granular_index <= tgt_non_granular_index.
C29_NonGranularScalings ==
    /\ [][CachedScalingsReturned /\ ResetEffect]_vars
    /\ [](non_granular.non_granular_index <= non_granular.tgt_non_granular_index)

====
